---- MODULE Spec2Model ----
(***************************************************************************)
(* GitUnderstand front end: the SSE stream reader (lib/sse-reader.ts), the *)
(* three feature handlers built on it (useIngest, AIAnalysis, AIChat) and  *)
(* the Mermaid render-and-repair engine (components/mermaid-diagram.tsx).  *)
(*                                                                         *)
(* Text is a sequence of one-character strings.  The five characters       *)
(* "data:" are written as the single character "d", a complete JSON text   *)
(* as one character ("A", "B": event objects, "Z": the literal null,       *)
(* "X": text that is not JSON), and "(" "U" ")" spell an event object     *)
(* whose type string is the two-byte character U.  The body stream is a    *)
(* sequence of bytes: every character is one byte except U, which is the   *)
(* bytes "u1" "u2".                                                        *)
(***************************************************************************)
EXTENDS Integers, Sequences, FiniteSets, TLC

VARIABLES
    \* ---- readSSEStream: one call ----
    pc,         \* where the call is suspended: idle, fetch, json, read, resolved, rejected
    handlers,   \* whether the caller's onEvent / onError return or throw
    response,   \* the Response fetch resolved with
    pos,        \* bytes of response.body already handed out by reader.read()
    pending,    \* TextDecoder: a lead byte kept back by decode(..., {stream: true})
    buffer,     \* let buffer
    calls,      \* the callback invocations made so far, in order
    reader,     \* response.body's reader: none (never obtained), locked, released
    \* ---- the features built on readSSEStream ----
    feature,    \* the hook or component a behaviour exercises (they share no state)
    streams,    \* the readSSEStream calls the feature has started
    ingest,     \* useIngest: result, error, loading, progress, abortRef.current
    summary,    \* AIAnalysis: available, quota, the availability check, the summary panel
    chat,       \* AIChat: messages, busy, showSuggestions, error
    sessionStorage, \* the item chat_<digestId> of the browser's sessionStorage
    chart,      \* MermaidChart: the chart prop
    activeChart,    \* MermaidChart: the text being shown
    errorState, \* MermaidChart: hasError, message, rawCode, repairedCode
    renderIdRef,    \* MermaidChart: renderIdRef.current
    attempts,   \* the calls of renderDiagram: where each is suspended, and its code
    target,     \* the content of the .mermaid-render-target element
    mermaid,    \* what the mermaid library makes of each text
    \* ---- the functions checked on their own ----
    invoked,    \* the call made: the function and its arguments
    returned,   \* what the call returned or threw, null while it has not
    \* ---- the preset buttons of the ingest form (main.js) ----
    activePreset,   \* _activePreset: the name of the active preset or null
    form,           \* the values of #pattern_type, #pattern and #output_format
    frames,         \* the applyPreset calls on the stack, the innermost last
    uncaught        \* the exception that ended the last click handler, or null

sseVars == <<pc, handlers, response, pos, pending, buffer, calls, reader>>
featVars == <<feature, streams, ingest, summary, chat, sessionStorage>>
renderVars == <<chart, activeChart, errorState, renderIdRef, attempts, target, mermaid>>
pureVars == <<invoked, returned>>
presetVars == <<activePreset, form, frames, uncaught>>
nonSSE == <<featVars, renderVars, pureVars, presetVars>>
nonFeat == <<sseVars, renderVars, pureVars, presetVars>>
nonRender == <<sseVars, featVars, pureVars, presetVars>>
nonPure == <<sseVars, featVars, renderVars, presetVars>>
nonPreset == <<sseVars, featVars, renderVars, pureVars>>
vars == <<sseVars, featVars, renderVars, pureVars, presetVars>>

(***************************************************************************)
(* Bounds                                                                  *)
(***************************************************************************)
\* frames (pieces) a response body is made of, at most
MaxFrames == 3

(***************************************************************************)
(* Sequence helpers                                                        *)
(***************************************************************************)
RECURSIVE Flatten(_)
Flatten(ss) ==
    IF ss = <<>> THEN <<>> ELSE Head(ss) \o Flatten(Tail(ss))

SeqsUpTo(S, n) == UNION {[1..k -> S] : k \in 0..n}

(***************************************************************************)
(* JavaScript values: undefined, null, strings and numbers                 *)
(***************************************************************************)
Undefined == [undefined |-> TRUE]
Null == [null |-> TRUE]
Str(s) == [str |-> s]
Num(n) == [num |-> n]

\* a ?? b
Coalesce(a, b) == IF a \in {Undefined, Null} THEN b ELSE a

\* the truthiness of a value: if (a), a ? x : y, !a
Bool(b) == [bool |-> b]
\* a string whose characters matter, as their sequence
Text(cs) == [text |-> cs]
Truthy(a) == a \notin {Undefined, Null, Num(0), Str(""), Text(<< >>), Bool(FALSE)}

(***************************************************************************)
(* The state before anything is called                                     *)
(***************************************************************************)
NoResponse ==
    [ok |-> TRUE, status |-> 200,
     json |-> [kind |-> "invalid", error |-> Undefined, detail |-> Undefined],
     hasBody |-> FALSE, frames |-> <<>>]

ReaderIdle ==
    /\ pc = "idle"
    /\ handlers = [onEvent |-> "returns", onError |-> "returns"]
    /\ response = NoResponse
    /\ pos = 0
    /\ pending = FALSE
    /\ buffer = <<>>
    /\ calls = <<>>
    /\ reader = "none"

\* streams a feature starts, at most
MaxStreams == 2
\* messages a chat is followed up to
MaxMsgs == 3
\* calls of renderDiagram followed per component
MaxRenders == 3

StreamIds == 1..MaxStreams

\* useIngest.ts lines 65-70, 82-87: the progress a submit starts from
ProgressStart ==
    [stage |-> "", label |-> "Preparing...", pct |-> 0, detail |-> Str("Initializing...")]

\* useIngest.ts lines 62-71
IngestStart ==
    [result |-> Null, error |-> Null, loading |-> FALSE, progress |-> ProgressStart,
     abort |-> FALSE]

\* api-key-dialog.tsx lines 193-206, and lines 210-212 with the first check()
\* of the availability effect under way (line 238).  cancelled is the
\* effect's flag; fetches counts the requests for /api/summary/available the
\* effect has made.
SummaryStart ==
    [available |-> FALSE, quota |-> Null, summaryLoading |-> FALSE,
     summaryContent |-> Null, summaryType |-> Null, summaryError |-> Null,
     summaryLoadingText |-> Str(""), cached |-> FALSE, activeSummaryType |-> Null,
     attempt |-> 0, check |-> "fetching", cancelled |-> FALSE, fetches |-> 1]

\* ai-chat.tsx lines 72-76.  The content of the textarea (input) is not kept:
\* it is whatever the user has typed when the message is sent.
ChatStart ==
    [messages |-> << >>, busy |-> FALSE, showSuggestions |-> TRUE, error |-> Null,
     restored |-> FALSE]

\* An empty sessionStorage that works.  item is the value under the key
\* chat_<digestId>; throws names the methods of the store that throw.
StoreStart == [item |-> Null, throws |-> {}]

\* A stream not yet requested; done: it has delivered an event of type complete
StreamUnused == [st |-> "unused", done |-> FALSE]

FeaturesIdle ==
    /\ streams = [i \in StreamIds |-> StreamUnused]
    /\ ingest = IngestStart
    /\ summary = SummaryStart
    /\ chat = ChatStart
    /\ sessionStorage = StoreStart

\* mermaid-diagram.tsx lines 81-86 and 265-270
NoError == [hasError |-> FALSE, message |-> Str(""), rawCode |-> << >>, repairedCode |-> Null]

AttemptIds == 1..MaxRenders

AttemptIdle == [pc |-> "idle", code |-> << >>, repaired |-> Null]

\* The component before it is mounted
RenderIdle ==
    /\ chart = << >>
    /\ activeChart = << >>
    /\ errorState = NoError
    /\ renderIdRef = 0
    /\ attempts = [i \in AttemptIds |-> AttemptIdle]
    /\ target = Null
    /\ mermaid = [verdict |-> << >>, errors |-> TRUE]

\* No function is being checked on its own
NoCall == invoked = Null /\ returned = Null

\* The page as loaded: no preset active, the pattern empty, nothing running
PresetsIdle ==
    /\ activePreset = Null
    /\ form = [pattern_type |-> "exclude", pattern |-> "", output_format |-> "text"]
    /\ frames = << >>
    /\ uncaught = Null

(***************************************************************************)
(* Text primitives of the reader                                           *)
(***************************************************************************)
NL == "\n"
DQ == "\""
SP == " "
\* \s
WhiteChars == {SP, NL, "\t", "\r"}

\* TextDecoder.decode(value, {stream: true}): UTF-8 bytes to characters.  A
\* lead byte at the end of a chunk is kept for the next call; a lead byte
\* not followed by its continuation byte, and a continuation byte on its
\* own, decode to the replacement character "?".
RECURSIVE DecodeFrom(_, _, _, _)
DecodeFrom(chunk, i, pend, out) ==
    IF i > Len(chunk) THEN [text |-> out, pending |-> pend]
    ELSE IF pend
         THEN IF chunk[i] = "u2"
              THEN DecodeFrom(chunk, i + 1, FALSE, Append(out, "U"))
              ELSE DecodeFrom(chunk, i, FALSE, Append(out, "?"))
         ELSE IF chunk[i] = "u1" THEN DecodeFrom(chunk, i + 1, TRUE, out)
              ELSE IF chunk[i] = "u2"
                   THEN DecodeFrom(chunk, i + 1, FALSE, Append(out, "?"))
                   ELSE DecodeFrom(chunk, i + 1, FALSE, Append(out, chunk[i]))

decode(pend, chunk) == DecodeFrom(chunk, 1, pend, <<>>)

\* String.prototype.split("\n\n"): the pieces between the delimiters, found
\* left to right without overlap; n delimiters give n + 1 pieces.
RECURSIVE SplitFrames(_, _, _, _)
SplitFrames(s, i, cur, out) ==
    IF i > Len(s) THEN Append(out, cur)
    ELSE IF i < Len(s) /\ s[i] = NL /\ s[i + 1] = NL
         THEN SplitFrames(s, i + 2, <<>>, Append(out, cur))
         ELSE SplitFrames(s, i + 1, Append(cur, s[i]), out)

splitNN(s) == SplitFrames(s, 1, <<>>, <<>>)

\* String.prototype.split("\n")
RECURSIVE SplitLinesFrom(_, _, _, _)
SplitLinesFrom(s, i, cur, out) ==
    IF i > Len(s) THEN Append(out, cur)
    ELSE IF s[i] = NL
         THEN SplitLinesFrom(s, i + 1, <<>>, Append(out, cur))
         ELSE SplitLinesFrom(s, i + 1, Append(cur, s[i]), out)

splitN(s) == SplitLinesFrom(s, 1, <<>>, <<>>)

IsWhite(c) == c \in WhiteChars

\* String.prototype.trim()
RECURSIVE TrimLeft(_)
TrimLeft(s) ==
    IF s # <<>> /\ IsWhite(Head(s)) THEN TrimLeft(Tail(s)) ELSE s

RECURSIVE TrimRight(_)
TrimRight(s) ==
    IF s # <<>> /\ IsWhite(s[Len(s)]) THEN TrimRight(SubSeq(s, 1, Len(s) - 1)) ELSE s

trim(s) == TrimRight(TrimLeft(s))

\* line.startsWith("data: "): "d" is the five characters data:
startsWithData(line) == Len(line) >= 2 /\ line[1] = "d" /\ line[2] = SP

\* line.slice(6)
slice6(line) == SubSeq(line, 3, Len(line))

\* JSON.parse: white space around the value is allowed, anything else is
\* not; ok = FALSE stands for the SyntaxError it throws.
JSONParse(text) ==
    LET t == trim(text) IN
    IF t = <<"A">> THEN [ok |-> TRUE, value |-> [type |-> "a", payload |-> [n |-> "1"]]]
    ELSE IF t = <<"B">> THEN [ok |-> TRUE, value |-> [type |-> "b", payload |-> [n |-> "2"]]]
    ELSE IF t = <<"Z">> THEN [ok |-> TRUE, value |-> Null]
    ELSE IF Len(t) = 3 /\ t[1] = "(" /\ t[3] = ")" /\ t[2] \in {"U", "?"}
         THEN [ok |-> TRUE, value |-> [type |-> t[2], payload |-> [n |-> "3"]]]
    ELSE [ok |-> FALSE, value |-> Undefined]

(***************************************************************************)
(* readSSEStream: the values it handles                                    *)
(***************************************************************************)
RATE_LIMIT_MESSAGE == "Rate limit exceeded. Please wait a moment before trying again."

\* What response.json() can give for a non-2xx response: an object with or
\* without error / detail members, the value null, another value that is
\* not an object (a number, a string, an array, a boolean), or a rejection
\* (invalid or empty body).
FieldValues == {Undefined, Null, Str("boom"), Str("denied")}

ErrorBodies ==
    {[kind |-> "object", error |-> e, detail |-> d] : e \in FieldValues, d \in FieldValues}
    \cup {[kind |-> k, error |-> Undefined, detail |-> Undefined] : k \in {"null", "other", "invalid"}}

\* The pieces a body is made of here, as bytes: frames with a JSON event
\* (FrameU's type string holds a two-byte character), a frame whose data
\* line is not JSON, a frame with an event: line and a data line that lacks
\* the space, a single line feed, and a data line without its blank line.
FrameA == <<"d", SP, "A", NL, NL>>
FrameB == <<"d", SP, "B", NL, NL>>
FrameU == <<"d", SP, "(", "u1", "u2", ")", NL, NL>>
FrameBad == <<"d", SP, "X", NL, NL>>
FrameOther == <<"e", NL, "d", "A", NL, NL>>
LineFeed == <<NL>>
OpenLine == <<"d", SP, "B", NL>>

ValidFrames == {FrameA, FrameB, FrameU}

Pieces == ValidFrames \cup {FrameBad, FrameOther, LineFeed, OpenLine}

Responses ==
    {[ok |-> FALSE, status |-> st, json |-> j, hasBody |-> TRUE, frames |-> <<>>] :
        st \in {404, 429, 500}, j \in ErrorBodies}
    \cup {[ok |-> TRUE, status |-> 200, json |-> CHOOSE j \in ErrorBodies : j.kind = "invalid",
           hasBody |-> FALSE, frames |-> <<>>]}
    \cup {[ok |-> TRUE, status |-> 200, json |-> CHOOSE j \in ErrorBodies : j.kind = "invalid",
           hasBody |-> TRUE, frames |-> f] : f \in SeqsUpTo(Pieces, MaxFrames)}

\* the bytes of response.body
Body(r) == Flatten(r.frames)

HandlerModes == [onEvent : {"returns", "throws"}, onError : {"returns", "throws"}]

\* Values a rejected promise or a throw can carry: Error objects and other values.
Err(text) == [isError |-> TRUE, message |-> text]
Thrown == {Err("Failed to fetch"), [isError |-> FALSE, message |-> "aborted"]}

\* err instanceof Error ? err : new Error(String(err))
WrapError(err) == IF err.isError THEN err ELSE Err(err.message)

OnEventCall(ev) == [cb |-> "onEvent", arg |-> ev]
OnErrorCall(err) == [cb |-> "onError", arg |-> err]

(***************************************************************************)
(* readSSEStream: the steps between two awaits                             *)
(***************************************************************************)
\* Faulty variant of dispatchLines: a data line that fails to parse is reported
\* through onError instead of being logged and skipped.
RECURSIVE dispatchLines_ReportBadLine(_)
dispatchLines_ReportBadLine(lines) ==
    IF lines = <<>> THEN <<>>
    ELSE LET line == Head(lines)
             parsed == JSONParse(slice6(line))
         IN  (IF startsWithData(line)
              THEN IF parsed.ok THEN <<OnEventCall(parsed.value)>>
                   ELSE <<OnErrorCall(Err("Failed to parse SSE event"))>>
              ELSE <<>>) \o dispatchLines_ReportBadLine(Tail(lines))

\* Lines 57-66: the onEvent calls of one segment's lines, in line order.
\* A line whose remainder JSON.parse rejects is logged and gives none; an
\* exception thrown by onEvent itself is caught by the same catch and logged.
RECURSIVE dispatchLines(_)
dispatchLines(lines) ==
    IF lines = <<>> THEN <<>>
    ELSE LET line == Head(lines)
             parsed == JSONParse(slice6(line))
         IN  (IF startsWithData(line) /\ parsed.ok
              THEN <<OnEventCall(parsed.value)>>
              ELSE <<>>) \o dispatchLines(Tail(lines))

\* Faulty variant of dispatchEvents: the segments of one chunk are handled last first.
RECURSIVE dispatchEvents_LastFirst(_)
dispatchEvents_LastFirst(events) ==
    IF events = <<>> THEN <<>>
    ELSE dispatchEvents_LastFirst(Tail(events))
         \o (IF trim(Head(events)) = <<>>
             THEN <<>>
             ELSE dispatchLines(splitN(Head(events))))

\* Lines 54-67: for (const eventStr of events)
RECURSIVE dispatchEvents(_)
dispatchEvents(events) ==
    IF events = <<>> THEN <<>>
    ELSE (IF trim(Head(events)) = <<>>
          THEN <<>>
          ELSE dispatchLines(splitN(Head(events)))) \o dispatchEvents(Tail(events))

\* Faulty variant of popEvents: the incomplete tail is not kept for the next chunk.
popEvents_DropTail(buf) ==
    LET events == splitNN(buf)
    IN  [events |-> SubSeq(events, 1, Len(events) - 1), buffer |-> <<>>]

\* Lines 50-52: events = buffer.split("\n\n"); buffer = events.pop() ?? ""
popEvents(buf) ==
    LET events == splitNN(buf)
    IN  [events |-> SubSeq(events, 1, Len(events) - 1), buffer |-> events[Len(events)]]

\* Lines 72-74: catch (err) { onError(...) }.  An exception thrown by onError
\* here leaves the async function, so the promise rejects.
catchOuter(cs, err) ==
    [calls |-> Append(cs, OnErrorCall(WrapError(err))),
     pc |-> IF handlers.onError = "throws" THEN "rejected" ELSE "resolved"]

\* Lines 26-31
errMsgOf(status, data) ==
    IF status = 429 THEN Str(RATE_LIMIT_MESSAGE)
    ELSE Coalesce(data.error, Coalesce(data.detail, Str("Request failed")))

SSEInit == ReaderIdle /\ PresetsIdle /\ FeaturesIdle /\ RenderIdle /\ NoCall /\ feature = "none"

\* readSSEStream(url, body, onEvent, onError) is called: await fetch(...)
Call(h) ==
    /\ pc = "idle"
    /\ pc' = "fetch"
    /\ handlers' = h
    /\ UNCHANGED <<response, pos, pending, buffer, calls, reader>>
    /\ UNCHANGED nonSSE

\* fetch rejects (network failure): line 13 throws into the catch of line 72
FetchRejects(err) ==
    /\ pc = "fetch"
    /\ LET out == catchOuter(calls, err)
       IN  calls' = out.calls /\ pc' = out.pc
    /\ UNCHANGED <<handlers, response, pos, pending, buffer, reader>>
    /\ UNCHANGED nonSSE

\* fetch resolves with r: lines 19-21 (await response.json()), or lines
\* 36-43 up to the first await reader.read()
FetchResolves(r) ==
    /\ pc = "fetch"
    /\ response' = r
    /\ IF ~r.ok
       THEN /\ pc' = "json"
            /\ UNCHANGED <<calls, reader>>
       ELSE IF ~r.hasBody
       THEN LET cs == Append(calls, OnErrorCall(Err("No response body reader available")))
                out == IF handlers.onError = "throws"
                       THEN catchOuter(cs, Err("thrown by onError"))
                       ELSE [calls |-> cs, pc |-> "resolved"]
            IN  /\ calls' = out.calls
                /\ pc' = out.pc
                /\ UNCHANGED reader
       ELSE /\ pc' = "read"
            /\ reader' = "locked"
            /\ UNCHANGED calls
    /\ UNCHANGED <<handlers, pos, pending, buffer>>
    /\ UNCHANGED nonSSE

\* response.json() settles: lines 22-33
JsonSettles ==
    /\ pc = "json"
    /\ LET j == response.json
           out == IF j.kind = "null"
                  THEN \* data.error on null: a TypeError, caught at line 72
                       catchOuter(calls, Err("Cannot read properties of null"))
                  ELSE LET msg == errMsgOf(response.status, j)
                           cs == Append(calls, OnEventCall(
                                    [type |-> "error",
                                     payload |-> [message |-> msg, error |-> msg]]))
                       IN  IF handlers.onEvent = "throws"
                           THEN catchOuter(cs, Err("thrown by onEvent"))
                           ELSE [calls |-> cs, pc |-> "resolved"]
       IN  calls' = out.calls /\ pc' = out.pc
    /\ UNCHANGED <<handlers, response, pos, pending, buffer, reader>>
    /\ UNCHANGED nonSSE

\* reader.read() resolves with the next n bytes: lines 47-67.  (A read that
\* hands out no bytes leaves every variable as it is, and is left out.)
ReadChunk(n) ==
    /\ n >= 1
    /\ pc = "read"
    /\ pos + n <= Len(Body(response))
    /\ LET dec == decode(pending, SubSeq(Body(response), pos + 1, pos + n))
           popped == popEvents(buffer \o dec.text)
       IN  /\ pending' = dec.pending
           /\ buffer' = popped.buffer
           /\ calls' = calls \o dispatchEvents(popped.events)
    /\ pos' = pos + n
    /\ UNCHANGED <<pc, handlers, response, reader>>
    /\ UNCHANGED nonSSE

\* Faulty variant of ReadDone: what is left in the buffer when the stream
\* ends is handled as a last segment.
ReadDone_DispatchesTail ==
    /\ pc = "read"
    /\ pos = Len(Body(response))
    /\ pc' = "resolved"
    /\ reader' = "released"
    /\ calls' = calls \o dispatchEvents(<<buffer>>)
    /\ buffer' = <<>>
    /\ UNCHANGED <<handlers, response, pos, pending>>
    /\ UNCHANGED nonSSE


\* reader.read() resolves with done: lines 48, 70
ReadDone ==
    /\ pc = "read"
    /\ pos = Len(Body(response))
    /\ pc' = "resolved"
    /\ reader' = "released"
    /\ UNCHANGED <<handlers, response, pos, pending, buffer, calls>>
    /\ UNCHANGED nonSSE

\* reader.read() rejects: lines 69-74
ReadThrows ==
    /\ pc = "read"
    /\ reader' = "released"
    /\ LET out == catchOuter(calls, Err("network error"))
       IN  calls' = out.calls /\ pc' = out.pc
    /\ UNCHANGED <<handlers, response, pos, pending, buffer>>
    /\ UNCHANGED nonSSE

SSENext ==
    \/ \E h \in HandlerModes : Call(h)
    \/ \E err \in Thrown : FetchRejects(err)
    \/ \E r \in Responses : FetchResolves(r)
    \/ JsonSettles
    \/ \E n \in 1..Len(Body(response)) : ReadChunk(n)
    \/ ReadDone
    \/ ReadThrows

SpecSSE == SSEInit /\ [][SSENext]_vars

(***************************************************************************)
(* readSSEStream: claims C2 - C8, under SpecSSE                            *)
(***************************************************************************)
OnEvents(cs) == SelectSeq(cs, LAMBDA c : c.cb = "onEvent")
OnErrors(cs) == SelectSeq(cs, LAMBDA c : c.cb = "onError")

Received == SubSeq(Body(response), 1, pos)

\* The onEvent calls readSSEStream makes when the bytes arrive in one chunk.
OneChunk(bytes) == dispatchEvents(popEvents(decode(FALSE, bytes).text).events)

\* The event a valid frame carries, read off the frame and not parsed.
EventOf(frame) ==
    IF frame = FrameA THEN [type |-> "a", payload |-> [n |-> "1"]]
    ELSE IF frame = FrameB THEN [type |-> "b", payload |-> [n |-> "2"]]
    ELSE [type |-> "U", payload |-> [n |-> "3"]]

\* The events of the valid frames among fs that lie wholly in the first n bytes.
RECURSIVE EventsWithin(_, _)
EventsWithin(fs, n) ==
    IF fs = <<>> \/ Len(Head(fs)) > n THEN <<>>
    ELSE (IF Head(fs) \in ValidFrames THEN <<OnEventCall(EventOf(Head(fs)))>> ELSE <<>>)
         \o EventsWithin(Tail(fs), n - Len(Head(fs)))

FramesAmong(S) == \A i \in 1..Len(response.frames) : response.frames[i] \in S

HandlersReturn == handlers.onEvent = "returns" /\ handlers.onError = "returns"

Settled == pc \in {"resolved", "rejected"}

\* C2. Frame reassembly: however the body is cut into chunks, the onEvent
\* calls made once a prefix of it has been read are those made when that
\* prefix arrives as one chunk; and for a body of valid frames they are the
\* frames' events, each exactly once, in body order.
C2_FrameReassembly ==
    reader # "none" =>
        /\ OnEvents(calls) = OneChunk(Received)
        /\ FramesAmong(ValidFrames) => OnEvents(calls) = EventsWithin(response.frames, pos)

\* C2 witness: two valid frames or more, one event dispatched, and the last
\* read ended inside a "\n\n" delimiter or inside a two-byte character.
C2_Witness ==
    /\ pc = "read"
    /\ FramesAmong(ValidFrames)
    /\ Len(response.frames) >= 2
    /\ Len(calls) >= 1
    /\ \/ pending
       \/ buffer # <<>> /\ buffer[Len(buffer)] = NL

\* C3 (as claimed). A non-2xx response gives exactly one onEvent call, with an
\* event of type error whose payload has the same text as message and as
\* error, no onError call, no reader on the body, and the call returns.
C3_NonOkOneErrorEvent ==
    (Settled /\ ~response.ok /\ HandlersReturn) =>
        /\ pc = "resolved"
        /\ reader = "none"
        /\ Len(calls) = 1
        /\ calls[1].cb = "onEvent"
        /\ calls[1].arg.type = "error"
        /\ calls[1].arg.payload.message = calls[1].arg.payload.error

\* C4. Malformed-frame resilience: in a body of valid frames and frames whose
\* data line is not JSON, the onEvent calls are exactly the events of the
\* valid frames received so far, in body order; onError is not called while
\* reading goes on; and a call that ends without onError has read the whole body.
C4_MalformedFrameSkipped ==
    (reader # "none" /\ FramesAmong(ValidFrames \cup {FrameBad})) =>
        /\ OnEvents(calls) = EventsWithin(response.frames, pos)
        /\ pc = "read" => OnErrors(calls) = <<>>
        /\ (Settled /\ OnErrors(calls) = <<>>) => pos = Len(Body(response))

\* C4 witness: a malformed frame between two valid frames, read to the end.
C4_Witness ==
    /\ pc = "resolved"
    /\ Len(response.frames) = 3
    /\ response.frames[1] \in ValidFrames
    /\ response.frames[2] = FrameBad
    /\ response.frames[3] \in ValidFrames
    /\ Len(calls) = 2

\* The text handed to the segment loop so far: what was decoded, less the
\* tail still kept in buffer.
Consumed ==
    LET text == decode(FALSE, Received).text
    IN  SubSeq(text, 1, Len(text) - Len(buffer))

RECURSIVE ParsedDataLines(_)
ParsedDataLines(lines) ==
    IF lines = <<>> THEN <<>>
    ELSE (IF Len(Head(lines)) >= 2 /\ SubSeq(Head(lines), 1, 2) = <<"d", SP>>
             /\ JSONParse(SubSeq(Head(lines), 3, Len(Head(lines)))).ok
          THEN <<JSONParse(SubSeq(Head(lines), 3, Len(Head(lines)))).value>>
          ELSE <<>>) \o ParsedDataLines(Tail(lines))

\* C5. Event ordering: the arguments of the onEvent calls are the values of
\* the parsable "data: " lines of the text consumed so far, one call a line,
\* in the order of the lines in the body; other lines give no call.
C5_EventOrder ==
    reader # "none" =>
        [i \in 1..Len(OnEvents(calls)) |-> OnEvents(calls)[i].arg]
            = ParsedDataLines(splitN(Consumed))

\* C5 witness: two data lines of one segment and a line that is not a data
\* line, all consumed, with two events dispatched in body order.
C5_Witness ==
    /\ pc = "read"
    /\ response.frames = <<FrameOther, OpenLine, FrameA>>
    /\ pos = Len(Body(response))
    /\ calls = <<OnEventCall(EventOf(FrameB)), OnEventCall(EventOf(FrameA))>>

\* The message the status-code mapping promises ("present": a member that
\* holds a value).
ClaimedMessage(status, j) ==
    IF status = 429 THEN Str(RATE_LIMIT_MESSAGE)
    ELSE IF j.kind = "object" /\ j.error \notin {Undefined, Null} THEN j.error
    ELSE IF j.kind = "object" /\ j.detail \notin {Undefined, Null} THEN j.detail
    ELSE Str("Request failed")

\* C6 (as claimed). Status-code mapping: a non-2xx response yields an error
\* event whose message is the rate-limit text for 429 whatever the body, and
\* otherwise the body's error, else its detail, else "Request failed".
C6_StatusCodeMapping ==
    (Settled /\ ~response.ok /\ HandlersReturn) =>
        \E i \in 1..Len(calls) :
            /\ calls[i].cb = "onEvent"
            /\ calls[i].arg.type = "error"
            /\ calls[i].arg.payload.message = ClaimedMessage(response.status, response.json)

TransportFailures ==
    {Err("Failed to fetch"), Err("aborted"), Err("No response body reader available"),
     Err("network error")}

\* C7 (as claimed). onError is called at most once, only for a rejected
\* fetch, a missing body reader or a failed read, and it is the last callback
\* the call makes.
C7_OnErrorUniqueAndFinal ==
    HandlersReturn =>
        /\ Len(OnErrors(calls)) <= 1
        /\ \A i \in 1..Len(calls) :
              calls[i].cb = "onError" =>
                  /\ i = Len(calls)
                  /\ Settled
                  /\ calls[i].arg \in TransportFailures

\* C8 (as claimed). Whatever the outcome of the request, a throwing handler
\* included, the promise readSSEStream returns never rejects.
C8_NeverRejects == pc # "rejected"

(***************************************************************************)
(* The streams a feature reads.  A feature calls readSSEStream with its    *)
(* two handlers; the call invokes onEvent for each event of the stream,    *)
(* in order, may invoke onError once as its last callback, and resolves.   *)
(* Events are SSEEvent values: {type: string, payload: object}.            *)
(***************************************************************************)
Used == {i \in StreamIds : streams[i].st # "unused"}

\* the id of the next readSSEStream call; the call is made only while one is left
NextStream == Cardinality(Used) + 1

startStream(id) == [streams EXCEPT ![id].st = "open"]

\* the readSSEStream call of stream s has not resolved yet
Calling(s) == streams[s].st = "open"

\* onEvent(ev) on stream s
delivered(s, ev) ==
    [streams EXCEPT ![s].done = @ \/ ev.type = "complete"]

\* onError(err) on stream s, after which the call resolves
failed(s) == [streams EXCEPT ![s].st = "closed"]

\* readSSEStream resolves without a further callback (end of stream): the
\* await in the feature's function returns and nothing else is done
StreamEnds(s) ==
    /\ feature # "none"
    /\ streams[s].st = "open"
    /\ streams' = [streams EXCEPT ![s].st = "closed"]
    /\ UNCHANGED <<feature, ingest, summary, chat, sessionStorage>>
    /\ UNCHANGED nonFeat

\* What a transport error carries in err.message
TransportMessage == "Failed to fetch"

(***************************************************************************)
(* useIngest (hooks/useIngest.ts)                                          *)
(***************************************************************************)
\* Faulty variant of PROGRESS_STAGES: cloning and analyzing share a percentage.
PROGRESS_STAGES_CloningAt60 ==
    [parsing |-> [label |-> "Parsing URL", pct |-> 5],
     cloning |-> [label |-> "Cloning repository", pct |-> 60],
     analyzing |-> [label |-> "Analyzing files", pct |-> 60],
     formatting |-> [label |-> "Building output", pct |-> 85],
     storing |-> [label |-> "Saving digest", pct |-> 95]]

\* Lines 53-59
PROGRESS_STAGES ==
    [parsing |-> [label |-> "Parsing URL", pct |-> 5],
     cloning |-> [label |-> "Cloning repository", pct |-> 25],
     analyzing |-> [label |-> "Analyzing files", pct |-> 60],
     formatting |-> [label |-> "Building output", pct |-> 85],
     storing |-> [label |-> "Saving digest", pct |-> 95]]

StageTypes == {"parsing", "cloning", "analyzing", "formatting", "storing"}

\* `${filesProcessed} files processed`
FilesProcessedText(n) == [template |-> "files processed", n |-> n]

\* The events an ingest stream can carry: the seven of the vocabulary and one
\* outside it.
IngestEvents ==
    {[type |-> t, payload |-> [files_processed |-> fp, message |-> m]] :
        t \in StageTypes \cup {"thinking"},
        fp \in {Undefined, Num(0), Num(7)}, m \in {Undefined, Str("msg")}}
    \cup {[type |-> "complete", payload |-> [repo_url |-> Str(u)]] : u \in {"r1", "r2"}}
    \cup {[type |-> "error", payload |-> [error |-> e, message |-> m]] :
        e \in {Undefined, Str("boom")}, m \in {Undefined, Str("msg")}}

\* Faulty variant of ingestOnEvent: a default branch takes every other type
\* for a stage without a table entry.
ingestOnEvent_DefaultStage(st, ev) ==
    IF st.abort THEN st
    ELSE IF ev.type \in StageTypes
    THEN [st EXCEPT !.progress =
            [stage |-> ev.type,
             label |-> PROGRESS_STAGES[ev.type].label,
             pct |-> PROGRESS_STAGES[ev.type].pct,
             detail |-> IF Truthy(ev.payload.files_processed)
                        THEN FilesProcessedText(ev.payload.files_processed.num)
                        ELSE Coalesce(ev.payload.message, Str(""))]]
    ELSE IF ev.type = "complete"
    THEN [st EXCEPT !.progress = [stage |-> "complete", label |-> "Complete",
                                  pct |-> 100, detail |-> Str("")],
                    !.result = ev.payload,
                    !.loading = FALSE]
    ELSE IF ev.type = "error"
    THEN [st EXCEPT !.error = Coalesce(ev.payload.error,
                                  Coalesce(ev.payload.message,
                                      Str("An unknown error occurred."))),
                    !.loading = FALSE]
    ELSE [st EXCEPT !.progress.stage = ev.type]

\* Faulty variant of ingestOnEvent: the error branch forgets setLoading(false).
ingestOnEvent_ErrorKeepsLoading(st, ev) ==
    IF st.abort THEN st
    ELSE IF ev.type \in StageTypes
    THEN [st EXCEPT !.progress =
            [stage |-> ev.type,
             label |-> PROGRESS_STAGES[ev.type].label,
             pct |-> PROGRESS_STAGES[ev.type].pct,
             detail |-> IF Truthy(ev.payload.files_processed)
                        THEN FilesProcessedText(ev.payload.files_processed.num)
                        ELSE Coalesce(ev.payload.message, Str(""))]]
    ELSE IF ev.type = "complete"
    THEN [st EXCEPT !.progress = [stage |-> "complete", label |-> "Complete",
                                  pct |-> 100, detail |-> Str("")],
                    !.result = ev.payload,
                    !.loading = FALSE]
    ELSE IF ev.type = "error"
    THEN [st EXCEPT !.error = Coalesce(ev.payload.error,
                                  Coalesce(ev.payload.message,
                                      Str("An unknown error occurred.")))]
    ELSE st

\* Lines 92-140: the onEvent handler submit passes to readSSEStream
ingestOnEvent(st, ev) ==
    IF st.abort THEN st
    ELSE IF ev.type \in StageTypes
    THEN [st EXCEPT !.progress =
            [stage |-> ev.type,
             label |-> PROGRESS_STAGES[ev.type].label,
             pct |-> PROGRESS_STAGES[ev.type].pct,
             detail |-> IF Truthy(ev.payload.files_processed)
                        THEN FilesProcessedText(ev.payload.files_processed.num)
                        ELSE Coalesce(ev.payload.message, Str(""))]]
    ELSE IF ev.type = "complete"
    THEN [st EXCEPT !.progress = [stage |-> "complete", label |-> "Complete",
                                  pct |-> 100, detail |-> Str("")],
                    !.result = ev.payload,
                    !.loading = FALSE]
    ELSE IF ev.type = "error"
    THEN [st EXCEPT !.error = Coalesce(ev.payload.error,
                                  Coalesce(ev.payload.message,
                                      Str("An unknown error occurred."))),
                    !.loading = FALSE]
    ELSE st

\* Lines 141-146: the onError handler
ingestOnError(st, message) ==
    IF ~st.abort THEN [st EXCEPT !.error = Str(message), !.loading = FALSE] ELSE st

\* Lines 77-89: submit(formData), up to the await.  The hook lets its caller
\* submit at any time (the pages' form is disabled while loading).
Submit ==
    /\ feature = "ingest"
    /\ NextStream \in StreamIds
    /\ ingest' = [result |-> Null, error |-> Null, loading |-> TRUE,
                  progress |-> ProgressStart, abort |-> FALSE]
    /\ streams' = startStream(NextStream)
    /\ UNCHANGED <<feature, summary, chat, sessionStorage>>
    /\ UNCHANGED nonFeat

\* Lines 150-155: reset()
Reset ==
    /\ feature = "ingest"
    /\ ingest' = [ingest EXCEPT !.abort = TRUE, !.result = Null, !.error = Null,
                                !.loading = FALSE]
    /\ UNCHANGED <<feature, streams, summary, chat, sessionStorage>>
    /\ UNCHANGED nonFeat

IngestOnEvent(s, ev) ==
    /\ feature = "ingest"
    /\ Calling(s)
    /\ ingest' = ingestOnEvent(ingest, ev)
    /\ streams' = delivered(s, ev)
    /\ UNCHANGED <<feature, summary, chat, sessionStorage>>
    /\ UNCHANGED nonFeat

IngestOnError(s) ==
    /\ feature = "ingest"
    /\ Calling(s)
    /\ ingest' = ingestOnError(ingest, TransportMessage)
    /\ streams' = failed(s)
    /\ UNCHANGED <<feature, summary, chat, sessionStorage>>
    /\ UNCHANGED nonFeat

(***************************************************************************)
(* AIAnalysis: the summary panel (components/api-key-dialog.tsx)           *)
(***************************************************************************)
AI_TYPE_LABELS ==
    [architecture |-> "Architecture Overview", code_review |-> "Code Review",
     onboarding |-> "Onboarding Guide", security |-> "Security Audit"]

\* AI_TYPE_LABELS[key]: undefined for a key the table does not hold
LabelOf(key) ==
    IF key \in {Str(k) : k \in DOMAIN AI_TYPE_LABELS}
    THEN Str(AI_TYPE_LABELS[key.str])
    ELSE Undefined

\* String.prototype.toLowerCase on the labels and type names used here
toLowerCase(v) ==
    IF v = Str("Architecture Overview") THEN Str("architecture overview")
    ELSE IF v = Str("Code Review") THEN Str("code review")
    ELSE IF v = Str("Onboarding Guide") THEN Str("onboarding guide")
    ELSE IF v = Str("Security Audit") THEN Str("security audit")
    ELSE v

\* `Generating ${...}...`
GeneratingText(v) == [template |-> "Generating ...", arg |-> v]

\* `Network error: ${err.message}`
NetworkErrorText(message) == [template |-> "Network error: ", arg |-> Str(message)]

\* Lines 364-367: one button per entry of AI_TYPE_LABELS
SummaryTypes == {Str(k) : k \in DOMAIN AI_TYPE_LABELS}

Quota1 == [remaining |-> 4, limit |-> 5]

\* The events a summary stream can carry: the three of the vocabulary and
\* one outside it.
SummaryEvents ==
    {[type |-> t, payload |-> [message |-> m]] :
        t \in {"generating", "error", "progress"}, m \in {Undefined, Str("msg")}}
    \cup {[type |-> "complete",
           payload |-> [content |-> Str("c1"), summary_type |-> Str("architecture"),
                        cached |-> Bool(TRUE), quota |-> Quota1]],
          [type |-> "complete",
           payload |-> [content |-> Str("c2"), summary_type |-> Str("custom"),
                        cached |-> Undefined, quota |-> Undefined]]}

\* Lines 261-289: the onEvent handler generateSummary passes to readSSEStream
summaryOnEvent(st, ev) ==
    IF ev.type = "generating"
    THEN [st EXCEPT !.summaryLoadingText = Coalesce(ev.payload.message, Str("Generating..."))]
    ELSE IF ev.type = "complete"
    THEN [st EXCEPT !.summaryLoading = FALSE,
                    !.summaryContent = ev.payload.content,
                    !.summaryType = Coalesce(LabelOf(ev.payload.summary_type),
                                             ev.payload.summary_type),
                    !.cached = Truthy(ev.payload.cached),
                    !.quota = IF Truthy(ev.payload.quota) THEN ev.payload.quota ELSE @]
    ELSE IF ev.type = "error"
    THEN [st EXCEPT !.summaryLoading = FALSE,
                    !.summaryError = Coalesce(ev.payload.message,
                                        Str("An error occurred during AI analysis."))]
    ELSE st

\* Lines 290-293: the onError handler
summaryOnError(st, message) ==
    [st EXCEPT !.summaryLoading = FALSE, !.summaryError = NetworkErrorText(message)]

\* Line 212
maxAttempts == 3

\* checkedAgain with the test on attempt off by one
checkedAgain_OneMore(st, retry) ==
    IF retry /\ st.attempt <= maxAttempts
    THEN [st EXCEPT !.attempt = @ + 1, !.check = "waiting"]
    ELSE [st EXCEPT !.check = "stopped"]


\* Lines 225-228 and 232-235: another check is scheduled, or checking stops
checkedAgain(st, retry) ==
    IF retry /\ st.attempt < maxAttempts
    THEN [st EXCEPT !.attempt = @ + 1, !.check = "waiting"]
    ELSE [st EXCEPT !.check = "stopped"]

\* Lines 216-228: /api/summary/available answers; line 221 returns when the
\* effect has been cleaned up
AvailabilityResponds(data) ==
    /\ feature \in {"summary", "chat"}
    /\ summary.check = "fetching"
    /\ summary' = IF summary.cancelled
                  THEN [summary EXCEPT !.check = "stopped"]
                  ELSE checkedAgain([summary EXCEPT
                                        !.available = Truthy(data.available),
                                        !.quota = IF Truthy(data.quota)
                                                  THEN data.quota ELSE @],
                                    ~Truthy(data.available))
    /\ UNCHANGED <<feature, streams, ingest, chat, sessionStorage>>
    /\ UNCHANGED nonFeat

\* Lines 229-236: the availability request fails; line 230 returns when the
\* effect has been cleaned up
AvailabilityFails ==
    /\ feature \in {"summary", "chat"}
    /\ summary.check = "fetching"
    /\ summary' = IF summary.cancelled
                  THEN [summary EXCEPT !.check = "stopped"]
                  ELSE checkedAgain([summary EXCEPT !.available = FALSE], TRUE)
    /\ UNCHANGED <<feature, streams, ingest, chat, sessionStorage>>
    /\ UNCHANGED nonFeat

\* Lines 227 and 234: the timer fires and check() runs again.  The cleanup
\* does not clear the timer, so it fires after a cleanup too.
CheckAgain ==
    /\ feature \in {"summary", "chat"}
    /\ summary.check = "waiting"
    /\ summary' = [summary EXCEPT !.check = "fetching", !.fetches = @ + 1]
    /\ UNCHANGED <<feature, streams, ingest, chat, sessionStorage>>
    /\ UNCHANGED nonFeat

\* Lines 239-241: the cleanup of the availability effect, run when AIAnalysis
\* unmounts.  The buttons are gone with the component; the timer and the
\* requests under way are not.
CleanupAvailability ==
    /\ feature = "summary"
    /\ ~summary.cancelled
    /\ summary' = [summary EXCEPT !.cancelled = TRUE]
    /\ UNCHANGED <<feature, streams, ingest, chat, sessionStorage>>
    /\ UNCHANGED nonFeat

AvailabilityData ==
    {[available |-> Bool(TRUE), quota |-> Quota1],
     [available |-> Bool(FALSE), quota |-> Undefined]}

\* Lines 245-258: generateSummary(type), up to the await.  The buttons that
\* call it are disabled while !available || summaryLoading (line 368).
GenerateSummary(type) ==
    /\ feature = "summary"
    /\ ~summary.cancelled
    /\ summary.available
    /\ ~summary.summaryLoading
    /\ NextStream \in StreamIds
    /\ summary' = [summary EXCEPT !.summaryLoading = TRUE,
                                  !.summaryContent = Null,
                                  !.summaryError = Null,
                                  !.cached = FALSE,
                                  !.activeSummaryType = type,
                                  !.summaryLoadingText =
                                      GeneratingText(toLowerCase(Coalesce(LabelOf(type), type)))]
    /\ streams' = startStream(NextStream)
    /\ UNCHANGED <<feature, ingest, chat, sessionStorage>>
    /\ UNCHANGED nonFeat

SummaryOnEvent(s, ev) ==
    /\ feature = "summary"
    /\ Calling(s)
    /\ summary' = summaryOnEvent(summary, ev)
    /\ streams' = delivered(s, ev)
    /\ UNCHANGED <<feature, ingest, chat, sessionStorage>>
    /\ UNCHANGED nonFeat

SummaryOnError(s) ==
    /\ feature = "summary"
    /\ Calling(s)
    /\ summary' = summaryOnError(summary, TransportMessage)
    /\ streams' = failed(s)
    /\ UNCHANGED <<feature, ingest, chat, sessionStorage>>
    /\ UNCHANGED nonFeat

(***************************************************************************)
(* AIChat (components/ai-chat.tsx), mounted inside AIAnalysis with its     *)
(* digestId and available.  digestId is a non-empty string wherever        *)
(* AIAnalysis is rendered, so the !digestId branches are never taken.      *)
(* Message and input texts are sequences of characters.                    *)
(***************************************************************************)
\* Lines 144-148 and 176-180: a ChatMessage
ChatMessage(role, content) == [role |-> role, content |-> content, timestamp |-> "new Date()"]

\* the characters of a role
roleChars(role) ==
    IF role = "user" THEN <<"u", "s", "e", "r">>
    ELSE <<"a", "s", "s", "i", "s", "t", "a", "n", "t">>

\* JSON.stringify of one character of a string
jsonChar(c) ==
    CASE c = DQ -> <<"\\", DQ>>
      [] c = "\\" -> <<"\\", "\\">>
      [] c = NL -> <<"\\", "n">>
      [] c = "\r" -> <<"\\", "r">>
      [] c = "\t" -> <<"\\", "t">>
      [] OTHER -> <<c>>

\* JSON.stringify of a string
jsonString(cs) == <<DQ>> \o Flatten([i \in 1..Len(cs) |-> jsonChar(cs[i])]) \o <<DQ>>

\* JSON.stringify of { role, content }
jsonMessage(m) ==
    <<"{">> \o jsonString(<<"r", "o", "l", "e">>) \o <<":">> \o jsonString(roleChars(m.role))
    \o <<",">> \o jsonString(<<"c", "o", "n", "t", "e", "n", "t">>) \o <<":">>
    \o jsonString(m.content.text) \o <<"}">>

\* Lines 111-113: JSON.stringify(msgs.map((m) => ({role, content})))
stringifyHistory(msgs) ==
    <<"[">>
    \o Flatten([i \in 1..Len(msgs) |->
                   (IF i = 1 THEN << >> ELSE <<",">>) \o jsonMessage(msgs[i])])
    \o <<"]">>

\* what JSON.parse cannot read (ok = FALSE stands for its SyntaxError)
ParseFails == [ok |-> FALSE, value |-> << >>, next |-> 0]

\* JSON.parse reads a string whose opening quote is before position p: the
\* characters read so far are acc
RECURSIVE parseString(_, _, _)
parseString(t, p, acc) ==
    IF p > Len(t) \/ t[p] \in {NL, "\r", "\t"} THEN ParseFails
    ELSE IF t[p] = DQ THEN [ok |-> TRUE, value |-> acc, next |-> p + 1]
    ELSE IF t[p] = "\\" /\ (p = Len(t) \/ t[p + 1] \notin {DQ, "\\", "/", "n", "r", "t"})
    THEN ParseFails
    ELSE LET esc == t[p] = "\\"
             c == IF ~esc THEN t[p]
                  ELSE CASE t[p + 1] = "n" -> NL
                         [] t[p + 1] = "r" -> "\r"
                         [] t[p + 1] = "t" -> "\t"
                         [] OTHER -> t[p + 1]
         IN  parseString(t, IF esc THEN p + 2 ELSE p + 1, Append(acc, c))

\* the word w stands in t at p
wordAt(t, p, w) == p + Len(w) - 1 <= Len(t) /\ SubSeq(t, p, p + Len(w) - 1) = w

\* JSON.parse reads {"role":"...","content":"..."} at position p
parseMessage(t, p) ==
    LET roleKey == <<"{">> \o jsonString(<<"r", "o", "l", "e">>) \o <<":", DQ>>
        contentKey == <<",">> \o jsonString(<<"c", "o", "n", "t", "e", "n", "t">>) \o <<":", DQ>>
    IN  IF ~wordAt(t, p, roleKey) THEN ParseFails
        ELSE LET role == parseString(t, p + Len(roleKey), << >>)
             IN  IF ~role.ok \/ ~wordAt(t, role.next, contentKey) THEN ParseFails
                 ELSE LET content == parseString(t, role.next + Len(contentKey), << >>)
                      IN  IF ~content.ok \/ ~wordAt(t, content.next, <<"}">>)
                          THEN ParseFails
                          ELSE [ok |-> TRUE,
                                value |-> [role |-> role.value, content |-> content.value],
                                next |-> content.next + 1]

\* JSON.parse reads the elements of an array from position p on
RECURSIVE parseElements(_, _, _)
parseElements(t, p, acc) ==
    LET m == parseMessage(t, p)
    IN  IF ~m.ok THEN ParseFails
        ELSE IF wordAt(t, m.next, <<"]">>) /\ m.next = Len(t)
        THEN [ok |-> TRUE, value |-> Append(acc, m.value), next |-> m.next + 1]
        ELSE IF ~wordAt(t, m.next, <<",">>) THEN ParseFails
        ELSE parseElements(t, m.next + 1, Append(acc, m.value))

\* Line 86: JSON.parse(saved), for the texts the item holds here: an array
\* of { role, content } objects as stringifyHistory writes them, or text
\* that is not JSON
JSONParseHistory(t) ==
    IF t = <<"[", "]">> THEN [ok |-> TRUE, value |-> << >>, next |-> 3]
    ELSE IF Len(t) = 0 \/ t[1] # "[" THEN ParseFails
    ELSE parseElements(t, 2, << >>)

\* the role a parsed history names
roleOf(cs) == IF cs = roleChars("user") THEN "user" ELSE "assistant"

\* sessionStorage.setItem(key, value): it throws (threw) or stores
setItem(store, value) ==
    IF "setItem" \in store.throws THEN [threw |-> TRUE, store |-> store]
    ELSE [threw |-> FALSE, store |-> [store EXCEPT !.item = Text(value)]]

\* sessionStorage.removeItem(key)
removeItem(store) ==
    IF "removeItem" \in store.throws THEN [threw |-> TRUE, store |-> store]
    ELSE [threw |-> FALSE, store |-> [store EXCEPT !.item = Null]]

\* sessionStorage.getItem(key)
getItem(store) ==
    IF "getItem" \in store.throws THEN [threw |-> TRUE, value |-> Undefined]
    ELSE [threw |-> FALSE, value |-> store.item]

\* Faulty variant of saveHistory: no try / catch around setItem.
saveHistory_NoCatch(store, msgs) == setItem(store, stringifyHistory(msgs))

\* Lines 105-120: saveHistory(msgs); what setItem throws is caught (line 115),
\* so it never throws
saveHistory(store, msgs) ==
    [threw |-> FALSE, store |-> setItem(store, stringifyHistory(msgs)).store]

\* Lines 80-102: the effect that restores the history on mount, as the new
\* chat state
restoreHistory(st, store) ==
    LET saved == getItem(store)
    IN  IF saved.threw \/ ~Truthy(saved.value) THEN st
        ELSE LET history == JSONParseHistory(saved.value.text)
             IN  IF ~history.ok \/ Len(history.value) = 0 THEN st
                 ELSE [st EXCEPT
                          !.messages =
                              [i \in 1..Len(history.value) |->
                                  ChatMessage(roleOf(history.value[i].role),
                                              Text(history.value[i].content))],
                          !.showSuggestions = FALSE]

\* one of QUICK_QUESTIONS (lines 12-17)
QUICK_QUESTION == <<"Q">>

\* what the user may have typed into the textarea
Inputs == {<< >>, <<SP>>, <<"q">>, <<SP, "q", NL>>}

\* The events a chat stream can carry: the three of the vocabulary and one
\* outside it.
ChatEvents ==
    {[type |-> t, payload |-> [message |-> m]] :
        t \in {"thinking", "error", "progress"}, m \in {Undefined, Str("msg")}}
    \cup {[type |-> "complete", payload |-> [content |-> c]] :
        c \in {Undefined, Text(<<"a", DQ, NL>>)}}

\* Faulty variant of chatOnEvent: the complete branch saves the list it was
\* given, without the answer.
chatOnEvent_SavesPrev(st, store, ev) ==
    IF ev.type = "complete"
    THEN LET content == Coalesce(ev.payload.content, Text(<< >>))
             updated == Append(st.messages, ChatMessage("assistant", content))
             saved == saveHistory(store, st.messages)
         IN  <<[st EXCEPT !.messages = IF saved.threw THEN @ ELSE updated,
                          !.busy = FALSE],
               saved.store>>
    ELSE IF ev.type = "error"
    THEN <<[st EXCEPT !.error = Coalesce(ev.payload.message, Str("An error occurred.")),
                      !.busy = FALSE], store>>
    ELSE <<st, store>>

\* Lines 170-196: the onEvent handler sendMessage passes to readSSEStream,
\* as the new <<chat, sessionStorage>>
chatOnEvent(st, store, ev) ==
    IF ev.type = "complete"
    THEN LET content == Coalesce(ev.payload.content, Text(<< >>))
             updated == Append(st.messages, ChatMessage("assistant", content))
             saved == saveHistory(store, updated)
         IN  \* an updater that throws leaves the list as it was
             <<[st EXCEPT !.messages = IF saved.threw THEN @ ELSE updated,
                          !.busy = FALSE],
               saved.store>>
    ELSE IF ev.type = "error"
    THEN <<[st EXCEPT !.error = Coalesce(ev.payload.message, Str("An error occurred.")),
                      !.busy = FALSE], store>>
    ELSE <<st, store>>

\* Lines 197-200: the onError handler
chatOnError(st, message) ==
    [st EXCEPT !.error = NetworkErrorText(message), !.busy = FALSE]

\* Lines 127-160: sendMessage(text), up to the await.  It is called with a
\* quick question by the suggestion buttons (shown while showSuggestions and
\* no message, line 364) and without argument, for the typed input, by Enter
\* and the Send button; all of them are disabled while busy || !available.
SendMessage(text, input) ==
    /\ feature = "chat"
    /\ chat.restored
    /\ ~chat.busy /\ summary.available
    /\ text # Undefined => chat.showSuggestions /\ Len(chat.messages) = 0
    /\ LET message == trim(Coalesce(text, Text(input)).text)
           newMessages == Append(chat.messages, ChatMessage("user", Text(message)))
           saved == saveHistory(sessionStorage, newMessages)
       IN  /\ Len(message) > 0
           /\ NextStream \in StreamIds
           \* lines 153-160 are reached when line 152 has not thrown
           /\ chat' = [chat EXCEPT !.showSuggestions = FALSE, !.error = Null,
                                   !.messages = newMessages, !.busy = ~saved.threw]
           /\ sessionStorage' = saved.store
           /\ streams' = IF saved.threw THEN streams ELSE startStream(NextStream)
    /\ UNCHANGED <<feature, ingest, summary>>
    /\ UNCHANGED nonFeat

\* Lines 80-102: AIChat has mounted and its first effect runs, before the user
\* can do anything
RestoreHistory ==
    /\ feature = "chat"
    /\ ~chat.restored
    /\ chat' = [restoreHistory(chat, sessionStorage) EXCEPT !.restored = TRUE]
    /\ UNCHANGED <<feature, streams, ingest, summary, sessionStorage>>
    /\ UNCHANGED nonFeat

\* Lines 226-236: clearChat(), behind a button shown while there are messages
ClearChat ==
    /\ feature = "chat"
    /\ chat.restored
    /\ Len(chat.messages) > 0
    /\ chat' = [chat EXCEPT !.messages = << >>, !.showSuggestions = TRUE]
    /\ sessionStorage' = removeItem(sessionStorage).store
    /\ UNCHANGED <<feature, streams, ingest, summary>>
    /\ UNCHANGED nonFeat

ChatOnEvent(s, ev) ==
    /\ feature = "chat"
    /\ Calling(s)
    /\ ev.type = "complete" => Len(chat.messages) < MaxMsgs
    /\ chat' = chatOnEvent(chat, sessionStorage, ev)[1]
    /\ sessionStorage' = chatOnEvent(chat, sessionStorage, ev)[2]
    /\ streams' = delivered(s, ev)
    /\ UNCHANGED <<feature, ingest, summary>>
    /\ UNCHANGED nonFeat

ChatOnError(s) ==
    /\ feature = "chat"
    /\ Calling(s)
    /\ chat' = chatOnError(chat, TransportMessage)
    /\ streams' = failed(s)
    /\ UNCHANGED <<feature, ingest, summary, sessionStorage>>
    /\ UNCHANGED nonFeat

FeatInit ==
    /\ ReaderIdle /\ PresetsIdle /\ FeaturesIdle /\ RenderIdle /\ NoCall
    /\ feature \in {"ingest", "summary", "chat"}

FeatNext ==
    \/ Submit
    \/ Reset
    \/ \E s \in StreamIds : \E ev \in IngestEvents : IngestOnEvent(s, ev)
    \/ \E s \in StreamIds : IngestOnError(s)
    \/ \E data \in AvailabilityData : AvailabilityResponds(data)
    \/ AvailabilityFails
    \/ CheckAgain
    \/ \E type \in SummaryTypes : GenerateSummary(type)
    \/ \E s \in StreamIds : \E ev \in SummaryEvents : SummaryOnEvent(s, ev)
    \/ \E s \in StreamIds : SummaryOnError(s)
    \/ \E text \in {Undefined, Text(QUICK_QUESTION)} : \E input \in Inputs :
          SendMessage(text, input)
    \/ RestoreHistory
    \/ ClearChat
    \/ \E s \in StreamIds : \E ev \in ChatEvents : ChatOnEvent(s, ev)
    \/ \E s \in StreamIds : ChatOnError(s)
    \/ \E s \in StreamIds : StreamEnds(s)

SpecFeat == FeatInit /\ [][FeatNext]_vars

(***************************************************************************)
(* AIAnalysis from its mount to its unmount: the availability effect, its  *)
(* cleanup, and the summaries requested in between, whose streams go on    *)
(* after the unmount.                                                      *)
(***************************************************************************)
AnalysisInit ==
    /\ ReaderIdle /\ PresetsIdle /\ FeaturesIdle /\ RenderIdle /\ NoCall
    /\ feature = "summary"

AnalysisNext ==
    \/ \E data \in AvailabilityData : AvailabilityResponds(data)
    \/ AvailabilityFails
    \/ CheckAgain
    \/ CleanupAvailability
    \/ \E type \in SummaryTypes : GenerateSummary(type)
    \/ \E s \in StreamIds : \E ev \in SummaryEvents : SummaryOnEvent(s, ev)
    \/ \E s \in StreamIds : SummaryOnError(s)
    \/ \E s \in StreamIds : StreamEnds(s)

SpecAnalysis == AnalysisInit /\ [][AnalysisNext]_vars

(***************************************************************************)
(* AIChat on its own: the panel is mounted once AIAnalysis has learnt that *)
(* the AI features are available, over a sessionStorage that may hold what *)
(* an earlier mount saved or text that is not JSON, and whose methods may  *)
(* throw.                                                                  *)
(***************************************************************************)
\* what an earlier mount of the panel left under the key
SavedBefore == stringifyHistory(<<ChatMessage("user", Text(<<"q">>))>>)

NotJSON == <<"[", "{">>

Stores ==
    {[item |-> i, throws |-> th] :
        i \in {Null, Text(SavedBefore), Text(NotJSON)},
        th \in {{}, {"getItem"}, {"setItem"}, {"removeItem"},
                {"getItem", "setItem", "removeItem"}}}

ChatInit ==
    /\ ReaderIdle /\ PresetsIdle /\ RenderIdle /\ NoCall
    /\ feature = "chat"
    /\ streams = [i \in StreamIds |-> StreamUnused]
    /\ ingest = IngestStart
    /\ summary = checkedAgain([SummaryStart EXCEPT !.available = TRUE, !.quota = Quota1],
                              FALSE)
    /\ chat = ChatStart
    /\ sessionStorage \in Stores

ChatNext ==
    \/ RestoreHistory
    \/ \E text \in {Undefined, Text(QUICK_QUESTION)} : \E input \in Inputs :
          SendMessage(text, input)
    \/ ClearChat
    \/ \E s \in StreamIds : \E ev \in ChatEvents : ChatOnEvent(s, ev)
    \/ \E s \in StreamIds : ChatOnError(s)
    \/ \E s \in StreamIds : StreamEnds(s)

SpecChat == ChatInit /\ [][ChatNext]_vars

(***************************************************************************)
(* Claims C9 and C10: what the features do with the events of a stream     *)
(***************************************************************************)
\* a step that handles an error: an event of type error, or a transport
\* error reported through onError
IngestHandlesError ==
    \E s \in StreamIds :
        \/ IngestOnError(s)
        \/ \E ev \in IngestEvents : ev.type = "error" /\ IngestOnEvent(s, ev)

SummaryHandlesError ==
    \E s \in StreamIds :
        \/ SummaryOnError(s)
        \/ \E ev \in SummaryEvents : ev.type = "error" /\ SummaryOnEvent(s, ev)

ChatHandlesError ==
    \E s \in StreamIds :
        \/ ChatOnError(s)
        \/ \E ev \in ChatEvents : ev.type = "error" /\ ChatOnEvent(s, ev)

\* a step that starts a request
RequestStarts == Cardinality(Used') > Cardinality(Used)

\* C9. In the ingest hook, the summary panel and the chat panel, handling an
\* event of type error and handling a transport error each leave the
\* feature's busy flag (loading, summaryLoading, busy) false, and the flag
\* goes from false to true only in a step that starts a new request: a
\* request whose stream delivered an error never leaves the flag true.
C9_ErrorsClearBusy ==
    [][/\ IngestHandlesError => ~ingest'.loading
       /\ SummaryHandlesError => ~summary'.summaryLoading
       /\ ChatHandlesError => ~chat'.busy
       /\ (~ingest.loading /\ ingest'.loading) => RequestStarts
       /\ (~summary.summaryLoading /\ summary'.summaryLoading) => RequestStarts
       /\ (~chat.busy /\ chat'.busy) => RequestStarts]_vars

\* The stream of an ingest request delivered a cloning event and an error
\* event: the error is shown and loading is off while the stream is open.
C9_Witness ==
    /\ feature = "ingest"
    /\ streams[1].st = "open"
    /\ ingest.progress.stage = "cloning"
    /\ ingest.error = Str("boom")
    /\ ~ingest.loading

\* C10 (as claimed). Once a stream has delivered a complete event, every
\* later event of that stream leaves the feature state unchanged: ingest
\* result, error, progress and loading; summary content, label, error and
\* loading; chat message list, persisted history, error and busy.
C10_CompleteIsTerminal ==
    [][\A s \in StreamIds :
          streams[s].done =>
              /\ (\E ev \in IngestEvents : IngestOnEvent(s, ev)) =>
                    UNCHANGED <<ingest.result, ingest.error, ingest.progress,
                                ingest.loading>>
              /\ (\E ev \in SummaryEvents : SummaryOnEvent(s, ev)) =>
                    UNCHANGED <<summary.summaryContent, summary.summaryType,
                                summary.summaryError, summary.summaryLoading>>
              /\ (\E ev \in ChatEvents : ChatOnEvent(s, ev)) =>
                    UNCHANGED <<chat.messages, sessionStorage, chat.error,
                                chat.busy>>]_vars

(***************************************************************************)
(* MermaidChart (components/mermaid-diagram.tsx).  Diagram texts are       *)
(* sequences of characters.  repairMermaidSyntax is a chain of global      *)
(* regular-expression replacements; a pattern is a sequence of nodes       *)
(* matched with JavaScript's backtracking order (alternatives left to      *)
(* right, greedy quantifiers longest first, lazy ones shortest first).     *)
(***************************************************************************)
\* \w
WordChars ==
    {"a", "b", "c", "d", "e", "f", "g", "h", "i", "j", "k", "l", "m", "n", "o",
     "p", "q", "r", "s", "t", "u", "v", "w", "x", "y", "z",
     "A", "B", "C", "D", "E", "F", "G", "H", "I", "J", "K", "L", "M", "N", "O",
     "P", "Q", "R", "S", "T", "U", "V", "W", "X", "Y", "Z",
     "0", "1", "2", "3", "4", "5", "6", "7", "8", "9", "_"}


\* pattern nodes: a character class taken once ("1"), greedily any number
\* of times ("*") or lazily any number of times ("*?"), the two ends of a
\* capture group, a word boundary, an alternation of character sequences
Cls(cs, neg, q) == [k |-> "cls", cs |-> cs, neg |-> neg, q |-> q]
Lit(c) == Cls({c}, FALSE, "1")
Lits(s) == [i \in 1..Len(s) |-> Lit(s[i])]
AnyChar == Cls({NL, "\r"}, TRUE, "1")
Star(cs, neg) == <<Cls(cs, neg, "*")>>
LazyStar(cs, neg) == <<Cls(cs, neg, "*?")>>
\* x+ is x followed by x*
Plus(cs, neg) == <<Cls(cs, neg, "1"), Cls(cs, neg, "*")>>
Open(g) == [k |-> "open", g |-> g]
Close(g) == [k |-> "close", g |-> g]
WordBoundary == [k |-> "wb"]
Alt(alts) == [k |-> "alt", alts |-> alts]

Accepts(nd, c) == (c \in nd.cs) # nd.neg

IsWordAt(text, p) == p >= 1 /\ p <= Len(text) /\ text[p] \in WordChars
IsBoundary(text, p) == IsWordAt(text, p - 1) # IsWordAt(text, p)

\* the alternative alt (single characters) fits the text at p
AltFits(alt, text, p) ==
    /\ p + Len(alt) - 1 <= Len(text)
    /\ \A j \in 1..Len(alt) : Accepts(alt[j], text[p + j - 1])

NoCaps == [g \in 1..2 |-> [s |-> 0, e |-> 0]]

\* A thread of the matcher: at node i of the pattern, at position p of the
\* text, with the captures made so far.  Its continuations, in the order
\* in which backtracking tries them:
Continuations(re, text, th) ==
    LET nd == re[th.i]
        on == [th EXCEPT !.i = @ + 1]
        here == th.p <= Len(text) /\ Accepts(nd, text[th.p])
    IN  CASE nd.k = "open" -> <<[on EXCEPT !.caps[nd.g].s = th.p]>>
          [] nd.k = "close" -> <<[on EXCEPT !.caps[nd.g].e = th.p]>>
          [] nd.k = "wb" -> IF IsBoundary(text, th.p) THEN <<on>> ELSE << >>
          [] nd.k = "alt" ->
                LET fits == SelectSeq([a \in 1..Len(nd.alts) |-> a],
                                      LAMBDA a : AltFits(nd.alts[a], text, th.p))
                IN  [j \in 1..Len(fits) |-> [on EXCEPT !.p = @ + Len(nd.alts[fits[j]])]]
          [] nd.k = "cls" /\ nd.q = "1" ->
                IF here THEN <<[on EXCEPT !.p = @ + 1]>> ELSE << >>
          [] nd.k = "cls" /\ nd.q = "*" ->
                IF here THEN <<[th EXCEPT !.p = @ + 1], on>> ELSE <<on>>
          [] nd.k = "cls" /\ nd.q = "*?" ->
                IF here THEN <<on, [th EXCEPT !.p = @ + 1]>> ELSE <<on>>

\* The first thread, in backtracking order, that reaches the end of the
\* pattern: << >> when none does, else <<thread>>.  stack holds the threads
\* still to try, the next one first.
RECURSIVE Run(_, _, _)
Run(re, text, stack) ==
    IF stack = << >> THEN << >>
    ELSE IF Head(stack).i > Len(re) THEN <<Head(stack)>>
    ELSE Run(re, text, Continuations(re, text, Head(stack)) \o Tail(stack))

\* the match of re at position p: << >>, or <<[end, caps]>> with end the
\* position after the match
Match(re, text, p) ==
    LET r == Run(re, text, <<[i |-> 1, p |-> p, caps |-> NoCaps]>>)
    IN  IF r = << >> THEN << >> ELSE <<[end |-> r[1].p, caps |-> r[1].caps]>>

\* the capture group g of a match
Group(text, m, g) == SubSeq(text, m.caps[g].s, m.caps[g].e - 1)

\* String.prototype.replace with a /g pattern: the matches from position
\* from on, leftmost first and not overlapping, as <<[s, end, caps], ...>>
RECURSIVE FindAll(_, _, _)
FindAll(re, text, from) ==
    IF from > Len(text) + 1 THEN << >>
    ELSE LET r == Match(re, text, from)
             found == IF r = << >> THEN << >>
                      ELSE <<[s |-> from, end |-> r[1].end, caps |-> r[1].caps]>>
             next == IF r = << >> \/ r[1].end = from THEN from + 1 ELSE r[1].end
         IN  found \o FindAll(re, text, next)

\* the text with each match ms[j] replaced by reps[j]
RECURSIVE Splice(_, _, _, _, _)
Splice(text, ms, reps, j, from) ==
    IF j > Len(ms) THEN SubSeq(text, from, Len(text))
    ELSE SubSeq(text, from, ms[j].s - 1) \o reps[j]
         \o Splice(text, ms, reps, j + 1, ms[j].end)

\* /%%\{init:[\s\S]*?\}%%/g (line 14)
InitDirective ==
    Lits(<<"%", "%", "{", "i", "n", "i", "t", ":">>)
    \o LazyStar({}, TRUE) \o Lits(<<"}", "%", "%">>)

\* (-->|---|-\.-|==>|-.->|--x|--o), the dot of the fifth not escaped
Connector ==
    Alt(<<Lits(<<"-", "-", ">">>), Lits(<<"-", "-", "-">>), Lits(<<"-", ".", "-">>),
          Lits(<<"=", "=", ">">>), <<Lit("-"), AnyChar, Lit("-"), Lit(">")>>,
          Lits(<<"-", "-", "x">>), Lits(<<"-", "-", "o">>)>>)

\* /(connector)\|\s*"([^"]*)"\s*\|/g (lines 18-21)
QuotedEdgeLabel ==
    <<Open(1), Connector, Close(1), Lit("|")>> \o Star(WhiteChars, FALSE)
    \o <<Lit(DQ), Open(2)>> \o Star({DQ}, TRUE) \o <<Close(2), Lit(DQ)>>
    \o Star(WhiteChars, FALSE) \o <<Lit("|")>>

\* /(connector)\|\s+([^"|][^|]*?)\s+\|/g (lines 23-26)
SpacedEdgeLabel ==
    <<Open(1), Connector, Close(1), Lit("|")>> \o Plus(WhiteChars, FALSE)
    \o <<Open(2), Cls({DQ, "|"}, TRUE, "1")>> \o LazyStar({"|"}, TRUE) \o <<Close(2)>>
    \o Plus(WhiteChars, FALSE) \o <<Lit("|")>>

Subgraph == Lits(<<"s", "u", "b", "g", "r", "a", "p", "h">>)

ClassSuffix == Lits(<<":", ":", ":">>) \o Plus(WordChars, FALSE)

\* /(subgraph\s+"[^"]*"):::\w+/g (line 30)
QuotedSubgraphClass ==
    <<Open(1)>> \o Subgraph \o Plus(WhiteChars, FALSE)
    \o <<Lit(DQ)>> \o Star({DQ}, TRUE) \o <<Lit(DQ), Close(1)>> \o ClassSuffix

\* /(subgraph\s+\S+):::\w+/g (line 31)
SubgraphClass ==
    <<Open(1)>> \o Subgraph \o Plus(WhiteChars, FALSE) \o Plus(WhiteChars, TRUE)
    \o <<Close(1)>> \o ClassSuffix

\* /subgraph\s+\w+\s+"([^"]+)"/g (line 36)
SubgraphAlias ==
    Subgraph \o Plus(WhiteChars, FALSE) \o Plus(WordChars, FALSE)
    \o Plus(WhiteChars, FALSE) \o <<Lit(DQ), Open(1)>> \o Plus({DQ}, TRUE)
    \o <<Close(1), Lit(DQ)>>

\* /(\b\w+)\[([^\]"]+)\]/g (line 42)
BracketLabel ==
    <<Open(1), WordBoundary>> \o Plus(WordChars, FALSE) \o <<Close(1), Lit("["), Open(2)>>
    \o Plus({"]", DQ}, TRUE) \o <<Close(2), Lit("]")>>

\* /(\b\w+)\(([^)"]+)\)/g (line 51)
ParenLabel ==
    <<Open(1), WordBoundary>> \o Plus(WordChars, FALSE) \o <<Close(1), Lit("("), Open(2)>>
    \o Plus({")", DQ}, TRUE) \o <<Close(2), Lit(")")>>

\* /[/\\(){}@#$%^&*!<>;]/ (line 44) and /[/\\[\]{}@#$%^&*!<>;]/ (line 53)
UnsafeCommon == {"/", "\\", "{", "}", "@", "#", "$", "%", "^", "&", "*", "!", "<", ">", ";"}
UnsafeInBrackets == UnsafeCommon \cup {"(", ")"}
UnsafeInParens == UnsafeCommon \cup {"[", "]"}

\* replace every match of re in text, the replacement computed from the match
\* by one of the replacement rules below
Replaced(re, text, rule) ==
    LET ms == FindAll(re, text, 1)
        rep(m) ==
            CASE rule = "drop" -> << >>
              [] rule = "edgeLabel" ->
                    Group(text, m, 1) \o <<"|", DQ>> \o Group(text, m, 2) \o <<DQ, "|">>
              [] rule = "group1" -> Group(text, m, 1)
              [] rule = "subgraphTitle" ->
                    <<"s", "u", "b", "g", "r", "a", "p", "h", SP, DQ>>
                    \o Group(text, m, 1) \o <<DQ>>
              [] rule = "quoteBracket" ->
                    LET label == Group(text, m, 2)
                    IN  IF (\E j \in 1..Len(label) : label[j] \in UnsafeInBrackets)
                           /\ label[1] # DQ
                        THEN Group(text, m, 1) \o <<"[", DQ>> \o label \o <<DQ, "]">>
                        ELSE Group(text, m, 1) \o <<"[">> \o label \o <<"]">>
              [] rule = "quoteParen" ->
                    LET label == Group(text, m, 2)
                    IN  IF (\E j \in 1..Len(label) : label[j] \in UnsafeInParens)
                           /\ label[1] # DQ
                        THEN Group(text, m, 1) \o <<"(", DQ>> \o label \o <<DQ, ")">>
                        ELSE Group(text, m, 1) \o <<"(">> \o label \o <<")">>
    IN  Splice(text, ms, [j \in 1..Len(ms) |-> rep(ms[j])], 1, 1)

\* Lines 14-58: the replacements, in the order in which they are applied
RepairRules ==
    <<[re |-> InitDirective, by |-> "drop"],
      [re |-> QuotedEdgeLabel, by |-> "edgeLabel"],
      [re |-> SpacedEdgeLabel, by |-> "edgeLabel"],
      [re |-> QuotedSubgraphClass, by |-> "group1"],
      [re |-> SubgraphClass, by |-> "group1"],
      [re |-> SubgraphAlias, by |-> "subgraphTitle"],
      [re |-> BracketLabel, by |-> "quoteBracket"],
      [re |-> ParenLabel, by |-> "quoteParen"]>>

\* fixed = fixed.replace(...) for the rules from the j-th on
RECURSIVE ApplyRules(_, _)
ApplyRules(fixed, j) ==
    IF j > Len(RepairRules) THEN fixed
    ELSE ApplyRules(Replaced(RepairRules[j].re, fixed, RepairRules[j].by), j + 1)

\* Lines 10-64
repairMermaidSyntax(code) == trim(ApplyRules(code, 1))

(***************************************************************************)
(* The render engine of MermaidChart.  Each call of renderDiagram is an    *)
(* attempt, suspended at its awaits (mermaid.parse, mermaid.render, the    *)
(* pan-zoom set-up); the attempts of one component interleave at them.     *)
(* mermaid.parse answers by the text alone; mermaid.render of a text that  *)
(* parses resolves or rejects, and what made it reject (a resource that    *)
(* did not load) can go away between two attempts.                         *)
(***************************************************************************)
\* A[/] is changed by the repair, B is not
ChartA == <<"A", "[", "/", "]">>
ChartB == <<"B">>
Charts == {ChartA, ChartB}

\* the texts mermaid can be asked about
Texts == Charts \cup {repairMermaidSyntax(c) : c \in Charts}

Verdicts == {"ok", "parseFails", "renderFails"}

\* err.message of what mermaid.parse or mermaid.render rejects with
RejectionMessage(step, code) == [rejected |-> step, code |-> code]

\* Lines 214-217 and 248-251: errMsg
errMsg(step, code) ==
    IF mermaid.errors THEN RejectionMessage(step, code)
    ELSE IF step = "parse" THEN Str("Invalid Mermaid syntax")
    ELSE Str("Failed to render diagram")

\* what mermaid.render(renderId, code) resolves with, for the attempt id
Svg(id, code) == [svg |-> code, id |-> id]

\* containerRef.current.querySelector(".mermaid-render-target") finds the
\* element: the error view (lines 301-359) has none
HasTarget == ~errorState.hasError

\* Lines 171-180: renderDiagram(code) up to its first await, as the new
\* <<renderIdRef, attempts>>
startAttempt(code) ==
    <<renderIdRef + 1,
      [attempts EXCEPT ![renderIdRef + 1] =
          [pc |-> "parse", code |-> code, repaired |-> Null]]>>

Moved(i, to) == [attempts EXCEPT ![i].pc = to]

\* Line 182: the attempt's local constant repaired is bound
Repaired(i, repaired, to) ==
    [attempts EXCEPT ![i].pc = to, ![i].repaired = Text(repaired)]

\* Faulty variant of ParseSettles: line 184 without its test, the unchanged
\* text is parsed again
ParseSettles_ParsesUnchanged(i) ==
    /\ feature = "diagram"
    /\ attempts[i].pc = "parse"
    /\ LET code == attempts[i].code
           repaired == repairMermaidSyntax(code)
       IN  IF mermaid.verdict[code] # "parseFails"
           THEN /\ attempts' = Moved(i, "render")
                /\ UNCHANGED errorState
           ELSE /\ attempts' = Repaired(i, repaired, "parseRepaired")
                /\ UNCHANGED errorState
    /\ UNCHANGED <<chart, activeChart, renderIdRef, target, mermaid>>
    /\ UNCHANGED nonRender

\* Faulty variant of ParseSettles: line 222 without its test, the unchanged
\* text is kept as the candidate
ParseSettles_OffersUnchanged(i) ==
    /\ feature = "diagram"
    /\ attempts[i].pc = "parse"
    /\ LET code == attempts[i].code
           repaired == repairMermaidSyntax(code)
       IN  IF mermaid.verdict[code] # "parseFails"
           THEN /\ attempts' = Moved(i, "render")
                /\ UNCHANGED errorState
           ELSE IF repaired # code
           THEN /\ attempts' = Repaired(i, repaired, "parseRepaired")
                /\ UNCHANGED errorState
           ELSE /\ attempts' = Repaired(i, repaired, "done")
                /\ errorState' = [hasError |-> TRUE, message |-> errMsg("parse", code),
                                  rawCode |-> code, repairedCode |-> Text(repaired)]
    /\ UNCHANGED <<chart, activeChart, renderIdRef, target, mermaid>>
    /\ UNCHANGED nonRender

\* Line 180 settles
ParseSettles(i) ==
    /\ feature = "diagram"
    /\ attempts[i].pc = "parse"
    /\ LET code == attempts[i].code
           repaired == repairMermaidSyntax(code)
       IN  IF mermaid.verdict[code] # "parseFails"
           THEN /\ attempts' = Moved(i, "render")
                /\ UNCHANGED errorState
           ELSE IF repaired # code
           THEN /\ attempts' = Repaired(i, repaired, "parseRepaired")
                /\ UNCHANGED errorState
           ELSE /\ attempts' = Repaired(i, repaired, "done")
                /\ errorState' = [hasError |-> TRUE, message |-> errMsg("parse", code),
                                  rawCode |-> code, repairedCode |-> Null]
    /\ UNCHANGED <<chart, activeChart, renderIdRef, target, mermaid>>
    /\ UNCHANGED nonRender

\* Line 186 settles
ParseRepairedSettles(i) ==
    /\ feature = "diagram"
    /\ attempts[i].pc = "parseRepaired"
    /\ LET code == attempts[i].code
           repaired == attempts[i].repaired.text
       IN  IF mermaid.verdict[repaired] # "parseFails"
           THEN /\ attempts' = Moved(i, "renderRepaired")
                /\ errorState' = [hasError |-> FALSE, message |-> Str(""),
                                  rawCode |-> code, repairedCode |-> Text(repaired)]
           ELSE /\ attempts' = Moved(i, "done")
                /\ errorState' = [hasError |-> TRUE, message |-> errMsg("parse", code),
                                  rawCode |-> code, repairedCode |-> Text(repaired)]
    /\ UNCHANGED <<chart, activeChart, renderIdRef, target, mermaid>>
    /\ UNCHANGED nonRender

\* Line 195 settles
RenderRepairedSettles(i) ==
    /\ feature = "diagram"
    /\ attempts[i].pc = "renderRepaired"
    /\ LET code == attempts[i].code
           repaired == attempts[i].repaired.text
       IN  IF mermaid.verdict[repaired] = "ok"
           THEN /\ attempts' = Moved(i, IF HasTarget THEN "panZoomRepaired" ELSE "done")
                /\ target' = IF HasTarget THEN Svg(i, repaired) ELSE target
                /\ UNCHANGED errorState
           ELSE /\ attempts' = Moved(i, "done")
                /\ errorState' = [hasError |-> TRUE, message |-> errMsg("parse", code),
                                  rawCode |-> code, repairedCode |-> Text(repaired)]
                /\ UNCHANGED target
    /\ UNCHANGED <<chart, activeChart, renderIdRef, mermaid>>
    /\ UNCHANGED nonRender

\* Line 204 settles: initializePanZoom catches what the import throws
PanZoomRepairedSettles(i) ==
    /\ feature = "diagram"
    /\ attempts[i].pc = "panZoomRepaired"
    /\ attempts' = Moved(i, "done")
    /\ UNCHANGED <<chart, activeChart, errorState, renderIdRef, target, mermaid>>
    /\ UNCHANGED nonRender

\* Line 228 settles
RenderSettles(i) ==
    /\ feature = "diagram"
    /\ attempts[i].pc = "render"
    /\ LET code == attempts[i].code
       IN  IF mermaid.verdict[code] = "ok"
           THEN IF HasTarget
                THEN /\ target' = Svg(i, code)
                     /\ attempts' = Moved(i, "panZoom")
                     /\ UNCHANGED errorState
                ELSE /\ attempts' = Moved(i, "done")
                     /\ errorState' = NoError
                     /\ UNCHANGED target
           ELSE /\ attempts' = Moved(i, "done")
                /\ errorState' = [hasError |-> TRUE, message |-> errMsg("render", code),
                                  rawCode |-> code, repairedCode |-> Null]
                /\ UNCHANGED target
    /\ UNCHANGED <<chart, activeChart, renderIdRef, mermaid>>
    /\ UNCHANGED nonRender

\* Line 237 settles, then lines 241-246
PanZoomSettles(i) ==
    /\ feature = "diagram"
    /\ attempts[i].pc = "panZoom"
    /\ attempts' = Moved(i, "done")
    /\ errorState' = NoError
    /\ UNCHANGED <<chart, activeChart, renderIdRef, target, mermaid>>
    /\ UNCHANGED nonRender

\* The chart prop changes: the effect of lines 263-271, and the effect of
\* lines 273-275 when activeChart changed with it
ChartChanges(c) ==
    /\ feature = "diagram"
    /\ c # chart
    /\ renderIdRef < MaxRenders
    /\ chart' = c
    /\ activeChart' = c
    /\ errorState' = NoError
    /\ IF c # activeChart
       THEN /\ renderIdRef' = startAttempt(c)[1]
            /\ attempts' = startAttempt(c)[2]
       ELSE UNCHANGED <<renderIdRef, attempts>>
    /\ UNCHANGED <<target, mermaid>>
    /\ UNCHANGED nonRender

\* Lines 295-299, behind the button of lines 347-354, and the effect of
\* lines 273-275 when activeChart changed
handleRetryWithFixes ==
    /\ feature = "diagram"
    /\ errorState.hasError
    /\ Truthy(errorState.repairedCode)
    /\ renderIdRef < MaxRenders
    /\ activeChart' = errorState.repairedCode.text
    /\ IF errorState.repairedCode.text # activeChart
       THEN /\ renderIdRef' = startAttempt(errorState.repairedCode.text)[1]
            /\ attempts' = startAttempt(errorState.repairedCode.text)[2]
       ELSE UNCHANGED <<renderIdRef, attempts>>
    /\ UNCHANGED <<chart, errorState, target, mermaid>>
    /\ UNCHANGED nonRender

\* Lines 195 and 228: what made mermaid.render reject the text t is gone
RenderRecovers(t) ==
    /\ feature = "diagram"
    /\ mermaid.verdict[t] = "renderFails"
    /\ mermaid' = [mermaid EXCEPT !.verdict[t] = "ok"]
    /\ UNCHANGED <<chart, activeChart, errorState, renderIdRef, attempts, target>>
    /\ UNCHANGED nonRender

\* The component mounted with a chart: its first attempt is awaiting parse
RenderInit ==
    /\ ReaderIdle /\ PresetsIdle /\ FeaturesIdle /\ NoCall /\ feature = "diagram"
    /\ chart \in Charts
    /\ activeChart = chart
    /\ errorState = NoError
    /\ renderIdRef = 1
    /\ attempts = [i \in AttemptIds |->
                      IF i = 1 THEN [pc |-> "parse", code |-> chart, repaired |-> Null]
                      ELSE AttemptIdle]
    /\ target = Null
    /\ mermaid \in [verdict : [Texts -> Verdicts], errors : BOOLEAN]

RenderNext ==
    \/ \E i \in AttemptIds : ParseSettles(i)
    \/ \E i \in AttemptIds : ParseRepairedSettles(i)
    \/ \E i \in AttemptIds : RenderRepairedSettles(i)
    \/ \E i \in AttemptIds : PanZoomRepairedSettles(i)
    \/ \E i \in AttemptIds : RenderSettles(i)
    \/ \E i \in AttemptIds : PanZoomSettles(i)
    \/ \E c \in Charts : ChartChanges(c)
    \/ handleRetryWithFixes
    \/ \E t \in Texts : RenderRecovers(t)

SpecRender == RenderInit /\ [][RenderNext]_vars

(***************************************************************************)
(* Claim C1: a newer attempt supersedes the older ones                     *)
(***************************************************************************)
\* attempt i takes a step: one of its awaits settles
Resumes(i) == attempts'[i] # attempts[i] /\ attempts[i].pc # "idle"

\* C1 (as claimed). Once a newer attempt has been started (the attempt's
\* number is below renderIdRef), no step of the older attempt changes the
\* render state (hasError, message, rawCode, repairedCode) or the displayed
\* diagram: what settles both attempts leaves is what the newer one produced.
C1_Supersession ==
    [][\A i \in AttemptIds :
          (i < renderIdRef /\ Resumes(i)) =>
              (errorState' = errorState /\ target' = target)]_vars

(***************************************************************************)
(* Claim C11: one repair per attempt                                       *)
(***************************************************************************)
\* attempt i returns in this step
Ends(i) == attempts[i].pc \notin {"idle", "done"} /\ attempts'[i].pc = "done"

\* the repair of attempt i changed its text, and mermaid parses and renders
\* what it made
RepairWorks(i) ==
    /\ attempts[i].repaired # Null
    /\ attempts[i].repaired.text # attempts[i].code
    /\ mermaid.verdict[attempts[i].repaired.text] = "ok"

\* C11 (as claimed). Within an attempt repairMermaidSyntax is applied only
\* when the parse of the original text has just failed, and not after it was
\* applied; an attempt whose repaired text fails to parse returns without
\* another repair; and an attempt whose repaired text differs from the
\* original, parses and is rendered returns with the repaired text's drawing
\* displayed and hasError = false.
C11_OneShotRepair ==
    [][\A i \in AttemptIds :
          /\ attempts'[i].repaired # attempts[i].repaired /\ Resumes(i) =>
                 /\ attempts[i].pc = "parse"
                 /\ attempts[i].repaired = Null
                 /\ mermaid.verdict[attempts[i].code] = "parseFails"
                 /\ attempts'[i].repaired = Text(repairMermaidSyntax(attempts[i].code))
          /\ ( /\ attempts[i].pc = "parseRepaired" /\ Resumes(i)
               /\ mermaid.verdict[attempts[i].repaired.text] = "parseFails" ) =>
                 /\ attempts'[i].pc = "done"
                 /\ attempts'[i].repaired = attempts[i].repaired
          /\ (Ends(i) /\ RepairWorks(i)) =>
                 /\ ~errorState'.hasError
                 /\ target' = Svg(i, attempts[i].repaired.text)]_vars

\* C11 without its last part: the repair is applied once, after the failed
\* parse, and a repaired text that fails to parse ends the attempt
C11_RepairOnce ==
    [][\A i \in AttemptIds :
          /\ attempts'[i].repaired # attempts[i].repaired /\ Resumes(i) =>
                 /\ attempts[i].pc = "parse"
                 /\ attempts[i].repaired = Null
                 /\ mermaid.verdict[attempts[i].code] = "parseFails"
          /\ ( /\ attempts[i].pc = "parseRepaired" /\ Resumes(i)
               /\ mermaid.verdict[attempts[i].repaired.text] = "parseFails" ) =>
                 /\ attempts'[i].pc = "done"
                 /\ attempts'[i].repaired = attempts[i].repaired]_vars

(***************************************************************************)
(* repairMermaidSyntax on its own: one call on a text made of up to        *)
(* MaxSnippets snippets of diagram syntax.                                 *)
(***************************************************************************)
MaxSnippets == 2

\* the characters of a string literal's pieces, one by one
Snippets ==
    { <<"A">>, <<SP>>, <<NL>>,
      <<"A", SP, "-", "-", ">">>,                          \* A -->
      <<"-", ".", "-", ">">>,                              \* -.->
      <<"-", "a", "-", ">">>,                              \* -a->
      <<"-", "-", "o">>,                                   \* --o
      <<"|", SP, DQ, "g", "o", SP, "h", DQ, SP, "|", SP, "B">>,   \* | "go h" | B
      <<"|", SP, "g", "o", SP, "|">>,                      \* | go |
      <<"|", "g", "o", SP, "|">>,                          \* |go |
      <<"|", SP, "f", "(", "x", "/", "y", ")", SP, "|">>,  \* | f(x/y) |
      <<"|", DQ, "g", DQ, "|">>,                           \* |"g"|
      <<"[", "p", "/", "t", SP, "(", "f", ")", "]">>,      \* [p/t (f)]
      <<"[", "s", "i", "m", "]">>,                         \* [sim]
      <<"[", "a", "(", "b", "/", "c", ")", "]">>,          \* [a(b/c)]
      <<"[", DQ, "p", "/", DQ, "]">>,                      \* ["p/"]
      <<"(", "p", "/", "t", ")">>,                         \* (p/t)
      <<"(", "s", "[", "i", "]", ")">>,                    \* (s[i])
      <<"(", "s", ")">>,                                   \* (s)
      <<"s", "u", "b", "g", "r", "a", "p", "h", SP, "S">>, \* subgraph S
      <<":", ":", ":", "c">>,                              \* :::c
      <<SP, DQ, "T", DQ>>,                                 \* "T" after a space
      <<"%", "%", "{", "i", "n", "i", "t", ":", "x", "}", "%", "%">> }

RepairInputs == {Flatten(ps) : ps \in SeqsUpTo(Snippets, MaxSnippets)}

RepairInit ==
    /\ ReaderIdle /\ PresetsIdle /\ FeaturesIdle /\ RenderIdle /\ feature = "repair"
    /\ invoked \in {[fn |-> "repairMermaidSyntax", code |-> t] : t \in RepairInputs}
    /\ returned = Null

\* Lines 10-64: the call returns
RepairReturns ==
    /\ feature = "repair"
    /\ returned = Null
    /\ returned' = Text(repairMermaidSyntax(invoked.code))
    /\ UNCHANGED invoked
    /\ UNCHANGED nonPure

RepairNext == RepairReturns

SpecRepair == RepairInit /\ [][RepairNext]_vars

(***************************************************************************)
(* Claim C12: a text with none of the targeted problems is returned as is  *)
(***************************************************************************)
\* the word w stands in the text t at position p
OccursAt(t, w, p) == p + Len(w) - 1 <= Len(t) /\ SubSeq(t, p, p + Len(w) - 1) = w

\* the connectors of mermaid that rule 2 is about
ConnectorWords ==
    { <<"-", "-", ">">>, <<"-", "-", "-">>, <<"-", ".", "-">>, <<"=", "=", ">">>,
      <<"-", ".", "-", ">">>, <<"-", "-", "x">>, <<"-", "-", "o">> }

\* a %%{init: ... }%% directive
HasInitDirective(t) ==
    \E p, q \in 1..Len(t) :
        /\ OccursAt(t, <<"%", "%", "{", "i", "n", "i", "t", ":">>, p)
        /\ q >= p + 8
        /\ OccursAt(t, <<"}", "%", "%">>, q)

\* a connector directly followed by a pipe-delimited label with white space
\* next to one of its pipes
HasSpacedEdgeLabel(t) ==
    \E c \in ConnectorWords : \E p, q \in 1..Len(t) :
        /\ OccursAt(t, c, p)
        /\ q > p + Len(c)
        /\ t[p + Len(c)] = "|" /\ t[q] = "|"
        /\ IsWhite(t[p + Len(c) + 1]) \/ IsWhite(t[q - 1])

\* the word subgraph with a ::: or a double quote somewhere after it
HasSubgraphProblem(t) ==
    \E p, q \in 1..Len(t) :
        /\ OccursAt(t, <<"s", "u", "b", "g", "r", "a", "p", "h">>, p)
        /\ q > p
        /\ OccursAt(t, <<":", ":", ":">>, q) \/ t[q] = DQ

\* an unsafe character somewhere between an opening and a closing bracket,
\* or an opening and a closing parenthesis
HasUnsafeLabel(t) ==
    \E p, r, q \in 1..Len(t) :
        /\ p < r /\ r < q
        /\ \/ t[p] = "[" /\ t[q] = "]" /\ t[r] \in UnsafeInBrackets
           \/ t[p] = "(" /\ t[q] = ")" /\ t[r] \in UnsafeInParens

\* white space at either end
NeedsTrim(t) == Len(t) > 0 /\ (IsWhite(t[1]) \/ IsWhite(t[Len(t)]))

TargetedProblem(t) ==
    \/ HasInitDirective(t)
    \/ HasSpacedEdgeLabel(t)
    \/ HasSubgraphProblem(t)
    \/ HasUnsafeLabel(t)
    \/ NeedsTrim(t)

\* C12 (as claimed). Every call of repairMermaidSyntax returns a text, and
\* for a text with none of the targeted problems (no init directive, no
\* spaced edge label on a connector, no ::: or quoted title after subgraph,
\* no unsafe character in a bracket or parenthesis label, no white space at
\* either end) it returns the text it was given.
C12_CleanTextUnchanged ==
    (invoked # Null /\ invoked.fn = "repairMermaidSyntax" /\ returned # Null) =>
        /\ returned = Text(repairMermaidSyntax(invoked.code))
        /\ ~TargetedProblem(invoked.code) => returned.text = invoked.code

(***************************************************************************)
(* Claim C13: rule 5 quotes the unsafe labels, once                        *)
(***************************************************************************)
\* the text is one node id<label>: a word, the opening delimiter, a label
\* without double quote and closing delimiter, the closing delimiter
IsNode(t, open, close) ==
    \E k \in 2..(Len(t) - 2) :
        /\ \A j \in 1..(k - 1) : t[j] \in WordChars
        /\ t[k] = open /\ t[Len(t)] = close
        /\ \A j \in (k + 1)..(Len(t) - 1) : t[j] \notin {DQ, close}

\* where the label of the node starts
LabelStart(t, open) == 1 + CHOOSE k \in 1..Len(t) : t[k] = open /\ \A j \in 1..(k - 1) : t[j] # open

\* the node with its label in one pair of double quotes when it holds one of
\* the unsafe characters, the node as it is when not
QuotedNode(t, open, unsafe) ==
    IF \E j \in LabelStart(t, open)..(Len(t) - 1) : t[j] \in unsafe
    THEN SubSeq(t, 1, LabelStart(t, open) - 1) \o <<DQ>>
         \o SubSeq(t, LabelStart(t, open), Len(t) - 1) \o <<DQ, t[Len(t)]>>
    ELSE t

\* C13 (as claimed). A node written id[label] or id(label) whose label is
\* not quoted comes back with the label in exactly one pair of double quotes
\* when the label holds an unsafe character (for brackets / \ ( ) { } @ # $
\* % ^ & * ! < > ; and for parentheses the same with [ ] for ( )), and
\* unchanged when it holds none: the parenthesis rewrite does not rewrite
\* what the bracket rewrite made.
C13_LabelQuoting ==
    (invoked # Null /\ invoked.fn = "repairMermaidSyntax" /\ returned # Null) =>
        /\ IsNode(invoked.code, "[", "]") =>
               returned.text = QuotedNode(invoked.code, "[",
                   {"/", "\\", "(", ")", "{", "}", "@", "#", "$", "%", "^", "&", "*",
                    "!", "<", ">", ";"})
        /\ IsNode(invoked.code, "(", ")") =>
               returned.text = QuotedNode(invoked.code, "(",
                   {"/", "\\", "[", "]", "{", "}", "@", "#", "$", "%", "^", "&", "*",
                    "!", "<", ">", ";"})

(***************************************************************************)
(* Claim C14: rule 2 normalises the spaced edge labels                     *)
(***************************************************************************)
\* the connectors the claim lists
ClaimedConnectors ==
    { <<"-", "-", ">">>, <<"-", "-", "-">>, <<"-", ".", "-">>, <<"=", "=", ">">>,
      <<"-", "-", "x">>, <<"-", "-", "o">> }

\* in the text t the connector c stands at p, directly followed by a pipe,
\* white space, the label text t[a..b] (in double quotes or not), white
\* space, and the closing pipe at q
SpacedLabel(t, c, p, a, b, q) ==
    /\ OccursAt(t, c, p)
    /\ p + Len(c) + 1 < a /\ a <= b /\ b < q - 1
    /\ t[p + Len(c)] = "|" /\ t[q] = "|"
    /\ \A j \in (p + Len(c) + 1)..(a - 1) : IsWhite(t[j])
    /\ \A j \in (b + 1)..(q - 1) : IsWhite(t[j])
    /\ ~IsWhite(t[a]) /\ ~IsWhite(t[b])
    /\ \A j \in a..b : t[j] # "|"
    /\ \/ a < b /\ t[a] = DQ /\ t[b] = DQ /\ \A j \in (a + 1)..(b - 1) : t[j] # DQ
       \/ \A j \in a..b : t[j] # DQ

\* the label is the only thing to repair in t: nothing to trim, no
\* directive, no subgraph, no bracket, parenthesis or pipe outside the label
OnlyLabel(t, p, q) ==
    /\ ~NeedsTrim(t) /\ ~HasInitDirective(t) /\ ~HasSubgraphProblem(t)
    /\ \A j \in (1..(p - 1)) \cup ((q + 1)..Len(t)) : t[j] \notin {"[", "(", "|"}

\* the text with the label t[a..b] between the pipes, in double quotes
Normalised(t, c, p, a, b, q) ==
    SubSeq(t, 1, p + Len(c))
    \o (IF t[a] = DQ THEN SubSeq(t, a, b) ELSE <<DQ>> \o SubSeq(t, a, b) \o <<DQ>>)
    \o SubSeq(t, q, Len(t))

\* C14 (as claimed). For a connector -->, ---, -.-, ==>, --x or --o directly
\* followed by a pipe-delimited label with white space between the pipes
\* and the label text, quoted or not, the repaired text has the connector,
\* a pipe, the text in double quotes and a pipe, and is the given text
\* everywhere else.
C14_EdgeLabels ==
    (invoked # Null /\ invoked.fn = "repairMermaidSyntax" /\ returned # Null) =>
        \A c \in ClaimedConnectors : \A p, a, b, q \in 1..Len(invoked.code) :
            (SpacedLabel(invoked.code, c, p, a, b, q) /\ OnlyLabel(invoked.code, p, q)) =>
                returned.text = Normalised(invoked.code, c, p, a, b, q)

(***************************************************************************)
(* Claim C15: the progress handler of useIngest                            *)
(***************************************************************************)
\* the percentage the claim's table gives a stage
ClaimedPct(type) ==
    CASE type = "parsing" -> 5
      [] type = "cloning" -> 25
      [] type = "analyzing" -> 60
      [] type = "formatting" -> 85
      [] type = "storing" -> 95

\* C15. Handling a parsing, cloning, analyzing, formatting or storing event
\* while not aborted sets progress to the event's stage with the label and
\* percentage of the table (5, 25, 60, 85, 95), the detail being the count
\* of files processed when files_processed is a non-zero number and the
\* message (or the empty string) when not; handling a complete event sets
\* progress to complete / 100, result to the payload and loading to false;
\* and pct is always one of 0, 5, 25, 60, 85, 95, 100.
C15_IngestProgress ==
    [][/\ \A s \in StreamIds : \A ev \in IngestEvents :
            (IngestOnEvent(s, ev) /\ ~ingest.abort) =>
                /\ ev.type \in {"parsing", "cloning", "analyzing", "formatting", "storing"} =>
                       /\ ingest'.progress.stage = ev.type
                       /\ ingest'.progress.pct = ClaimedPct(ev.type)
                       /\ ingest'.progress.label = PROGRESS_STAGES[ev.type].label
                       /\ ingest'.progress.detail =
                              IF ev.payload.files_processed \in {Num(n) : n \in 1..9}
                              THEN FilesProcessedText(ev.payload.files_processed.num)
                              ELSE IF ev.payload.message \in {Undefined, Null}
                              THEN Str("") ELSE ev.payload.message
                       /\ ingest'.loading = ingest.loading
                       /\ ingest'.result = ingest.result
                /\ ev.type = "complete" =>
                       /\ ingest'.progress = [stage |-> "complete", label |-> "Complete",
                                              pct |-> 100, detail |-> Str("")]
                       /\ ingest'.result = ev.payload
                       /\ ~ingest'.loading
       /\ ingest'.progress.pct \in {0, 5, 25, 60, 85, 95, 100}]_vars

\* After a cloning event that counted 7 files the request is still loading at
\* 25 percent.
C15_Witness ==
    /\ feature = "ingest"
    /\ ingest.loading /\ ~ingest.abort
    /\ ingest.progress = [stage |-> "cloning", label |-> "Cloning repository", pct |-> 25,
                          detail |-> FilesProcessedText(7)]

\* After cloning and then complete: the result is the complete payload.
C15_WitnessComplete ==
    /\ feature = "ingest"
    /\ ~ingest.loading
    /\ ingest.progress.stage = "complete" /\ ingest.progress.pct = 100
    /\ ingest.result = [repo_url |-> Str("r1")]

(***************************************************************************)
(* Claim C16: the stored chat history is the message list                  *)
(***************************************************************************)
\* the role / content sequence of a message list
RolesAndContents(msgs) ==
    [i \in 1..Len(msgs) |-> [role |-> msgs[i].role, content |-> msgs[i].content]]

\* what a mount of the panel would restore from the store
Restorable(store) == RolesAndContents(restoreHistory(ChatStart, store).messages)

\* C16. With a store that works, once the panel has restored its history and
\* after any sendMessage, complete event and clearChat, what a mount would
\* restore from the item chat_<digestId> is the role / content sequence of
\* the message list in memory, in order, and the empty list when the item
\* is absent.
C16_HistoryPersisted ==
    (feature = "chat" /\ chat.restored /\ sessionStorage.throws = {}) =>
        /\ Restorable(sessionStorage) = RolesAndContents(chat.messages)
        /\ sessionStorage.item = Null => chat.messages = << >>

\* A question and its answer (with a quote and a line break) are in memory
\* and in the store after the history of an earlier mount was cleared.
C16_Witness ==
    /\ feature = "chat" /\ chat.restored /\ sessionStorage.throws = {}
    /\ Len(chat.messages) = 2
    /\ chat.messages[2] = ChatMessage("assistant", Text(<<"a", DQ, NL>>))
    /\ sessionStorage.item # Null
    /\ sessionStorage.item.text # SavedBefore

(***************************************************************************)
(* encrypt and decrypt (lib/encryption).  A JavaScript string is the       *)
(* sequence of its UTF-16 code units, a Buffer a sequence of bytes, the    *)
(* key and the base64 text sequences of characters.  AES-256-GCM is a      *)
(* keyed stream cipher with a 16-byte authentication tag over key, IV and  *)
(* ciphertext; randomBytes picks one of two IVs.                           *)
(***************************************************************************)
\* code units a plaintext has, at most
MaxUnits == 2

IV_LENGTH == 12
TAG_LENGTH == 16

RECURSIVE Sum(_)
Sum(bs) == IF bs = << >> THEN 0 ELSE bs[1] + Sum(Tail(bs))

HexDigits ==
    <<"0", "1", "2", "3", "4", "5", "6", "7", "8", "9", "a", "b", "c", "d", "e", "f">>

hexValue(c) == (CHOOSE i \in 1..16 : HexDigits[i] = c) - 1

IsHex(c) == \E i \in 1..16 : HexDigits[i] = c

\* Buffer.from(key, "hex"): the bytes of the pairs of hex digits, up to the
\* first pair that is not one
RECURSIVE fromHex(_)
fromHex(cs) ==
    IF Len(cs) < 2 \/ ~IsHex(cs[1]) \/ ~IsHex(cs[2]) THEN << >>
    ELSE <<16 * hexValue(cs[1]) + hexValue(cs[2])>> \o fromHex(SubSeq(cs, 3, Len(cs)))

IsHighSurrogate(u) == u \in 55296..56319
IsLowSurrogate(u) == u \in 56320..57343

\* the UTF-8 bytes of a string: a surrogate without its partner is written
\* as U+FFFD
RECURSIVE utf8Encode(_)
utf8Encode(us) ==
    IF us = << >> THEN << >>
    ELSE LET u == us[1]
             paired == IsHighSurrogate(u) /\ Len(us) > 1 /\ IsLowSurrogate(us[2])
             cp == IF paired THEN 65536 + (u - 55296) * 1024 + (us[2] - 56320) ELSE u
             bytes ==
                 IF paired
                 THEN <<240 + (cp \div 262144), 128 + ((cp \div 4096) % 64),
                        128 + ((cp \div 64) % 64), 128 + (cp % 64)>>
                 ELSE IF IsHighSurrogate(u) \/ IsLowSurrogate(u) THEN <<239, 191, 189>>
                 ELSE IF u < 128 THEN <<u>>
                 ELSE IF u < 2048 THEN <<192 + (u \div 64), 128 + (u % 64)>>
                 ELSE <<224 + (u \div 4096), 128 + ((u \div 64) % 64), 128 + (u % 64)>>
         IN  bytes \o utf8Encode(SubSeq(us, IF paired THEN 3 ELSE 2, Len(us)))

\* the bytes b[p+1..p+n] are continuation bytes
Continues(bs, p, n) == p + n <= Len(bs) /\ \A j \in 1..n : bs[p + j] \in 128..191

\* buffer.toString("utf8"): the string of the bytes, U+FFFD for a byte that
\* starts no character
RECURSIVE utf8Decode(_)
utf8Decode(bs) ==
    IF bs = << >> THEN << >>
    ELSE LET b == bs[1]
             n == IF b < 128 THEN 0
                  ELSE IF b \in 192..223 /\ Continues(bs, 1, 1) THEN 1
                  ELSE IF b \in 224..239 /\ Continues(bs, 1, 2) THEN 2
                  ELSE IF b \in 240..247 /\ Continues(bs, 1, 3) THEN 3
                  ELSE 4
             cp == CASE n = 0 -> b
                    [] n = 1 -> (b - 192) * 64 + (bs[2] - 128)
                    [] n = 2 -> (b - 224) * 4096 + (bs[2] - 128) * 64 + (bs[3] - 128)
                    [] n = 3 -> (b - 240) * 262144 + (bs[2] - 128) * 4096
                                + (bs[3] - 128) * 64 + (bs[4] - 128)
                    [] OTHER -> 65533
             units == IF cp < 65536 THEN <<cp>>
                      ELSE <<55296 + ((cp - 65536) \div 1024),
                             56320 + ((cp - 65536) % 1024)>>
         IN  units \o utf8Decode(SubSeq(bs, (IF n = 4 THEN 1 ELSE n + 1) + 1, Len(bs)))

Base64Chars ==
    <<"A", "B", "C", "D", "E", "F", "G", "H", "I", "J", "K", "L", "M", "N", "O", "P",
      "Q", "R", "S", "T", "U", "V", "W", "X", "Y", "Z", "a", "b", "c", "d", "e", "f",
      "g", "h", "i", "j", "k", "l", "m", "n", "o", "p", "q", "r", "s", "t", "u", "v",
      "w", "x", "y", "z", "0", "1", "2", "3", "4", "5", "6", "7", "8", "9", "+", "/">>

\* buffer.toString("base64")
RECURSIVE toBase64(_)
toBase64(bs) ==
    IF bs = << >> THEN << >>
    ELSE LET b1 == bs[1]
             b2 == IF Len(bs) > 1 THEN bs[2] ELSE 0
             b3 == IF Len(bs) > 2 THEN bs[3] ELSE 0
         IN  <<Base64Chars[(b1 \div 4) + 1],
               Base64Chars[(b1 % 4) * 16 + (b2 \div 16) + 1],
               IF Len(bs) > 1 THEN Base64Chars[(b2 % 16) * 4 + (b3 \div 64) + 1] ELSE "=",
               IF Len(bs) > 2 THEN Base64Chars[(b3 % 64) + 1] ELSE "=">>
             \o toBase64(SubSeq(bs, 4, Len(bs)))

sextet(c) == IF c = "=" THEN 0 ELSE (CHOOSE i \in 1..64 : Base64Chars[i] = c) - 1

\* Buffer.from(text, "base64"), for a text toBase64 wrote
RECURSIVE fromBase64(_)
fromBase64(cs) ==
    IF Len(cs) < 4 THEN << >>
    ELSE LET s1 == sextet(cs[1])
             s2 == sextet(cs[2])
             s3 == sextet(cs[3])
             s4 == sextet(cs[4])
             three == <<s1 * 4 + (s2 \div 16), (s2 % 16) * 16 + (s3 \div 4),
                        (s3 % 4) * 64 + s4>>
         IN  SubSeq(three, 1, IF cs[3] = "=" THEN 1 ELSE IF cs[4] = "=" THEN 2 ELSE 3)
             \o fromBase64(SubSeq(cs, 5, Len(cs)))

\* the key stream of the cipher at byte i
keyStream(key, iv, i) == (Sum(key) + 3 * Sum(iv) + 17 * i) % 256

\* cipher.update(...) and cipher.final(): the ciphertext of the bytes
cipherText(key, iv, bs) == [i \in 1..Len(bs) |-> (bs[i] + keyStream(key, iv, i)) % 256]

\* decipher.update(...): the bytes of a ciphertext
plainBytes(key, iv, cs) == [i \in 1..Len(cs) |-> (cs[i] + 256 - keyStream(key, iv, i)) % 256]

\* cipher.getAuthTag(): TAG_LENGTH bytes that depend on key, IV and ciphertext
authTag(key, iv, cs) ==
    [j \in 1..TAG_LENGTH |->
        (5 * Sum(key) + 7 * Sum(iv) + Sum([i \in 1..Len(cs) |-> (i + 1) * cs[i]]) + j) % 256]

\* what a call throws
Throws(e) == [threw |-> TRUE, error |-> e]
Returns(v) == [threw |-> FALSE, value |-> v]

\* Lines 83-89: getEncryptionKey(), for process.env.ENCRYPTION_KEY = key
getEncryptionKey(key) ==
    IF ~Truthy(key) \/ Len(key.text) # 64
    THEN Throws("ENCRYPTION_KEY must be 64 hex characters (32 bytes)")
    ELSE Returns(fromHex(key.text))

\* Lines 91-105: encrypt(plaintext), with iv what randomBytes gives
encrypt(key, iv, plaintext) ==
    LET k == getEncryptionKey(key)
    IN  IF k.threw THEN k
        ELSE IF Len(k.value) # 32 THEN Throws("Invalid key length")
        ELSE LET encrypted == cipherText(k.value, iv, utf8Encode(plaintext))
                 tag == authTag(k.value, iv, encrypted)
                 combined == iv \o encrypted \o tag
             IN  Returns(toBase64(combined))

\* Faulty variant of decrypt: the tag is taken to be IV_LENGTH bytes long.
decrypt_ShortTag(key, encryptedBase64) ==
    LET k == getEncryptionKey(key)
    IN  IF k.threw THEN k
        ELSE IF Len(k.value) # 32 THEN Throws("Invalid key length")
        ELSE LET combined == fromBase64(encryptedBase64)
                 iv == SubSeq(combined, 1, IV_LENGTH)
                 tag == SubSeq(combined, Len(combined) - IV_LENGTH + 1, Len(combined))
                 ciphertext == SubSeq(combined, IV_LENGTH + 1, Len(combined) - IV_LENGTH)
             IN  IF Len(tag) # TAG_LENGTH THEN Throws("Invalid authentication tag length")
                 ELSE IF tag # authTag(k.value, iv, ciphertext)
                 THEN Throws("Unsupported state or unable to authenticate data")
                 ELSE Returns(utf8Decode(plainBytes(k.value, iv, ciphertext)))

\* Lines 107-121: decrypt(encryptedBase64)
decrypt(key, encryptedBase64) ==
    LET k == getEncryptionKey(key)
    IN  IF k.threw THEN k
        ELSE IF Len(k.value) # 32 THEN Throws("Invalid key length")
        ELSE LET combined == fromBase64(encryptedBase64)
                 iv == SubSeq(combined, 1, IV_LENGTH)
                 tag == SubSeq(combined, Len(combined) - TAG_LENGTH + 1, Len(combined))
                 ciphertext == SubSeq(combined, IV_LENGTH + 1, Len(combined) - TAG_LENGTH)
             IN  IF Len(tag) # TAG_LENGTH THEN Throws("Invalid authentication tag length")
                 ELSE IF tag # authTag(k.value, iv, ciphertext)
                 THEN Throws("Unsupported state or unable to authenticate data")
                 ELSE Returns(utf8Decode(plainBytes(k.value, iv, ciphertext)))

\* the test key and the other key of the tests, a key that is too short, a
\* key of 64 characters that are not hex digits, no key
TEST_KEY == [i \in 1..64 |-> HexDigits[((i - 1) % 16) + 1]]

OTHER_KEY == [i \in 1..64 |-> HexDigits[((i + 9) % 16) + 1]]

Keys ==
    {Undefined, Text(<< >>), Text(<<"t", "o", "o">>), Text([i \in 1..64 |-> "z"]),
     Text(TEST_KEY), Text(OTHER_KEY)}

\* A, e with acute accent, a kanji, and the two halves of the key emoji
Units == {65, 233, 26085, 55357, 56593}

Plaintexts == SeqsUpTo(Units, MaxUnits)

IVs == {[i \in 1..IV_LENGTH |-> i], [i \in 1..IV_LENGTH |-> 200 + i]}

CryptInit ==
    /\ ReaderIdle /\ PresetsIdle /\ FeaturesIdle /\ RenderIdle /\ feature = "encryption"
    /\ invoked \in {[fn |-> "encrypt", key |-> k, plaintext |-> p] :
                       k \in Keys, p \in Plaintexts}
    /\ returned = Null

\* encrypt returns or throws
EncryptReturns(iv) ==
    /\ feature = "encryption"
    /\ invoked.fn = "encrypt" /\ returned = Null
    /\ returned' = encrypt(invoked.key, iv, invoked.plaintext)
    /\ UNCHANGED invoked
    /\ UNCHANGED nonPure

\* decrypt is called with what encrypt returned, under a key that may have
\* changed since
DecryptCalled(key) ==
    /\ feature = "encryption"
    /\ invoked.fn = "encrypt" /\ returned # Null /\ ~returned.threw
    /\ invoked' = [fn |-> "decrypt", key |-> key, encryptedBase64 |-> returned.value,
                   of |-> invoked]
    /\ returned' = Null
    /\ UNCHANGED nonPure

\* decrypt returns or throws
DecryptReturns ==
    /\ feature = "encryption"
    /\ invoked.fn = "decrypt" /\ returned = Null
    /\ returned' = decrypt(invoked.key, invoked.encryptedBase64)
    /\ UNCHANGED invoked
    /\ UNCHANGED nonPure

CryptNext ==
    \/ \E iv \in IVs : EncryptReturns(iv)
    \/ \E key \in Keys : DecryptCalled(key)
    \/ DecryptReturns

SpecCrypt == CryptInit /\ [][CryptNext]_vars

(***************************************************************************)
(* Claim C17: decrypt undoes encrypt                                       *)
(***************************************************************************)
\* a key of 64 hex characters
ValidKey(key) == Truthy(key) /\ Len(key.text) = 64 /\ \A i \in 1..64 : IsHex(key.text[i])

\* no key, or a key whose length is not 64
BadKey(key) == ~Truthy(key) \/ Len(key.text) # 64

\* a string without a surrogate that lacks its partner
WellFormed(us) ==
    \A i \in 1..Len(us) :
        /\ IsHighSurrogate(us[i]) => i < Len(us) /\ IsLowSurrogate(us[i + 1])
        /\ IsLowSurrogate(us[i]) => i > 1 /\ IsHighSurrogate(us[i - 1])

\* C17 (as claimed). Under a key of 64 hex characters decrypt returns, for
\* what encrypt returned for a plaintext under that key, that plaintext,
\* whatever the plaintext; with no key or a key whose length is not 64
\* encrypt and decrypt throw.
C17_RoundTrip ==
    returned # Null =>
        /\ (invoked.fn \in {"encrypt", "decrypt"} /\ BadKey(invoked.key)) => returned.threw
        /\ (invoked.fn = "encrypt" /\ ValidKey(invoked.key)) => ~returned.threw
        /\ (invoked.fn = "decrypt" /\ ValidKey(invoked.key) /\ invoked.key = invoked.of.key) =>
               returned = Returns(invoked.of.plaintext)

\* C17 (amended). The same for every plaintext in which no surrogate lacks
\* its partner.
C17_RoundTripWellFormed ==
    returned # Null =>
        /\ (invoked.fn \in {"encrypt", "decrypt"} /\ BadKey(invoked.key)) => returned.threw
        /\ (invoked.fn = "encrypt" /\ ValidKey(invoked.key)) => ~returned.threw
        /\ ( /\ invoked.fn = "decrypt" /\ ValidKey(invoked.key)
             /\ invoked.key = invoked.of.key /\ WellFormed(invoked.of.plaintext) ) =>
               returned = Returns(invoked.of.plaintext)

\* decrypt has returned a plaintext of an accented letter and the key emoji
\* that encrypt took under the same key.
C17_Witness ==
    /\ invoked # Null /\ invoked.fn = "decrypt" /\ returned # Null
    /\ invoked.key = Text(TEST_KEY) /\ invoked.of.key = Text(TEST_KEY)
    /\ returned = Returns(<<55357, 56593>>)
    /\ invoked.of.plaintext = <<55357, 56593>>

(***************************************************************************)
(* lib/safe-storage: safeGetItem, safeSetItem and safeRemoveItem over a    *)
(* localStorage whose methods may throw, and with them the operations of   *)
(* AIChat over its sessionStorage.                                         *)
(***************************************************************************)
\* safeGetItem(key): the stored value, null when there is none or when
\* localStorage throws
safeGetItem(store) ==
    LET got == getItem(store)
    IN  [threw |-> FALSE, value |-> IF got.threw THEN Null ELSE got.value, store |-> store]

\* safeSetItem(key, value): stores the value unless localStorage throws
safeSetItem(store, value) ==
    [threw |-> FALSE, value |-> Undefined, store |-> setItem(store, value).store]

\* safeRemoveItem(key): removes the value unless localStorage throws
safeRemoveItem(store) ==
    [threw |-> FALSE, value |-> Undefined, store |-> removeItem(store).store]

\* localStorage when one of the three is called
LocalStores ==
    {[item |-> i, throws |-> th] :
        i \in {Null, Text(<<"v">>)},
        th \in {{}, {"getItem"}, {"setItem"}, {"removeItem"},
                {"getItem", "setItem", "removeItem"}}}

SafeStorageInit ==
    /\ ReaderIdle /\ PresetsIdle /\ FeaturesIdle /\ RenderIdle /\ feature = "safe-storage"
    /\ invoked \in {[fn |-> f, localStorage |-> st, value |-> <<"t", "r", "u", "e">>] :
                       f \in {"safeGetItem", "safeSetItem", "safeRemoveItem"},
                       st \in LocalStores}
    /\ returned = Null

\* the call returns
SafeStorageReturns ==
    /\ feature = "safe-storage"
    /\ returned = Null
    /\ returned' = CASE invoked.fn = "safeGetItem" -> safeGetItem(invoked.localStorage)
                     [] invoked.fn = "safeSetItem" ->
                            safeSetItem(invoked.localStorage, invoked.value)
                     [] invoked.fn = "safeRemoveItem" -> safeRemoveItem(invoked.localStorage)
    /\ UNCHANGED invoked
    /\ UNCHANGED nonPure

StoreInit == ChatInit \/ SafeStorageInit

StoreNext == ChatNext \/ SafeStorageReturns

SpecStore == StoreInit /\ [][StoreNext]_vars

(***************************************************************************)
(* Claim C18: a failing store changes nothing but what is stored           *)
(***************************************************************************)
\* the steps of AIChat's operations, by what they do to the panel and its
\* streams: the mount effect has run; a user message was appended; a stream
\* delivered its complete event; the list got shorter
Restores == ~chat.restored /\ chat'.restored
Sends ==
    /\ chat.restored
    /\ Len(chat'.messages) = Len(chat.messages) + 1
    /\ chat'.messages[Len(chat'.messages)].role = "user"
Completes == \E s \in StreamIds : Calling(s) /\ ~streams[s].done /\ streams'[s].done
Clears == chat.restored /\ Len(chat'.messages) < Len(chat.messages)

\* C18. Whatever the store throws or holds: safeGetItem returns null when
\* getItem throws and the stored value when not, safeSetItem and
\* safeRemoveItem return; the restore on mount leaves the message list
\* empty when getItem throws or the item is absent or not JSON, and sets it
\* to the stored history when not; sendMessage appends the user's trimmed
\* message to the list and starts the request; the complete handler
\* appends the answer and clears busy; clearChat empties the list.
C18_StoreFailuresContained ==
    [][/\ (feature = "safe-storage" /\ returned' # Null) =>
              /\ ~returned'.threw
              /\ invoked.fn = "safeGetItem" =>
                     returned'.value = IF "getItem" \in invoked.localStorage.throws
                                       THEN Null ELSE invoked.localStorage.item
       /\ Restores =>
              chat'.messages =
                  IF "getItem" \notin sessionStorage.throws
                     /\ sessionStorage.item = Text(SavedBefore)
                  THEN <<ChatMessage("user", Text(<<"q">>))>>
                  ELSE << >>
       /\ Sends =>
              /\ SubSeq(chat'.messages, 1, Len(chat.messages)) = chat.messages
              /\ chat'.messages[Len(chat'.messages)].content
                     \in {Text(QUICK_QUESTION)} \cup {Text(trim(i)) : i \in Inputs}
              /\ chat'.busy /\ RequestStarts
       /\ Completes =>
              /\ Len(chat'.messages) = Len(chat.messages) + 1
              /\ SubSeq(chat'.messages, 1, Len(chat.messages)) = chat.messages
              /\ chat'.messages[Len(chat'.messages)]
                     \in {ChatMessage("assistant", Coalesce(ev.payload.content, Text(<< >>))) :
                             ev \in {e \in ChatEvents : e.type = "complete"}}
              /\ ~chat'.busy
       /\ Clears => chat'.messages = << >> /\ chat'.showSuggestions]_vars

\* Over a store whose setItem throws, a question and its answer are in the
\* message list and nothing was stored.
C18_Witness ==
    /\ feature = "chat"
    /\ "setItem" \in sessionStorage.throws
    /\ sessionStorage.item = Null
    /\ Len(chat.messages) = 2 /\ chat.messages[2].role = "assistant"
    /\ ~chat.busy

(***************************************************************************)
(* Claim C19: the repaired candidate                                       *)
(***************************************************************************)
\* C19 (as claimed). In every reachable render state repairedCode is
\* non-null only if the repair changed the source text and the repaired
\* text parsed: a repaired text that mermaid.parse rejects is never the
\* stored repairedCode.
C19_RepairedCandidate ==
    errorState.repairedCode # Null =>
        /\ errorState.repairedCode.text = repairMermaidSyntax(errorState.rawCode)
        /\ errorState.repairedCode.text # errorState.rawCode
        /\ mermaid.verdict[errorState.repairedCode.text] # "parseFails"

\* C19 (amended). repairedCode is non-null only if the repair changed the
\* source text, and while hasError is false only if the repaired text
\* parsed as well: a repaired text that mermaid.parse rejects is stored as
\* repairedCode only together with hasError = true.
C19_RepairedCandidateRetained ==
    errorState.repairedCode # Null =>
        /\ errorState.repairedCode.text = repairMermaidSyntax(errorState.rawCode)
        /\ errorState.repairedCode.text # errorState.rawCode
        /\ ~errorState.hasError =>
               mermaid.verdict[errorState.repairedCode.text] # "parseFails"

\* An attempt has returned from a repaired text that does not parse: the
\* error view holds the candidate.
C19_Witness ==
    /\ feature = "diagram"
    /\ errorState.hasError
    /\ errorState.repairedCode # Null
    /\ mermaid.verdict[errorState.repairedCode.text] = "parseFails"
    /\ \E i \in AttemptIds :
          /\ attempts[i].pc = "done"
          /\ attempts[i].repaired = errorState.repairedCode

(***************************************************************************)
(* Claim C20: mermaid.render rejects a text that parsed                    *)
(***************************************************************************)
\* attempt i resumes from mermaid.render, which rejected the text
RenderRejects(i) ==
    /\ Resumes(i)
    /\ \/ attempts[i].pc = "render"
          /\ mermaid.verdict[attempts[i].code] = "renderFails"
       \/ /\ attempts[i].pc = "renderRepaired"
          /\ mermaid.verdict[attempts[i].repaired.text] = "renderFails"

\* the text attempt i handed to mermaid.render
Rendering(i) ==
    IF attempts[i].pc = "render" THEN attempts[i].code
    ELSE attempts[i].repaired.text

\* C20 (as claimed). When mermaid.render rejects a text that parsed, the
\* original or the repaired one, the attempt ends with hasError = true, the
\* render error's message and repairedCode = null, so that Retry with fixes
\* is not offered.
C20_RenderFailure ==
    [][\A i \in AttemptIds :
          RenderRejects(i) =>
              /\ attempts'[i].pc = "done"
              /\ errorState'.hasError
              /\ errorState'.message = errMsg("render", Rendering(i))
              /\ errorState'.repairedCode = Null]_vars

\* C20 for the original text alone (lines 227-258)
C20_RenderFailureOfOriginal ==
    [][\A i \in AttemptIds :
          (RenderRejects(i) /\ attempts[i].pc = "render") =>
              /\ attempts'[i].pc = "done"
              /\ errorState'.hasError
              /\ errorState'.message = errMsg("render", Rendering(i))
              /\ errorState'.repairedCode = Null]_vars

(***************************************************************************)
(* Claim C21: a repair that changes nothing                                *)
(***************************************************************************)
\* attempt i resumes from the rejected parse of a text the repair leaves
\* as it is
NoOpRepair(i) ==
    /\ Resumes(i)
    /\ attempts[i].pc = "parse"
    /\ mermaid.verdict[attempts[i].code] = "parseFails"
    /\ repairMermaidSyntax(attempts[i].code) = attempts[i].code

\* C21. When the parse of the source text fails and repairMermaidSyntax
\* returns the same text, the attempt returns in that step, without a second
\* mermaid.parse and without a mermaid.render, and leaves hasError = true,
\* the parse error's message, rawCode = the source text and
\* repairedCode = null.
C21_NoOpRepair ==
    [][\A i \in AttemptIds :
          NoOpRepair(i) =>
              /\ attempts'[i].pc = "done"
              /\ target' = target
              /\ errorState' = [hasError |-> TRUE,
                                message |-> errMsg("parse", attempts[i].code),
                                rawCode |-> attempts[i].code,
                                repairedCode |-> Null]]_vars

\* An attempt has returned from a text that does not parse and that the
\* repair left unchanged.
C21_Witness ==
    /\ feature = "diagram"
    /\ errorState.hasError
    /\ errorState.repairedCode = Null
    /\ mermaid.verdict[errorState.rawCode] = "parseFails"
    /\ repairMermaidSyntax(errorState.rawCode) = errorState.rawCode
    /\ \E i \in AttemptIds :
          /\ attempts[i].pc = "done"
          /\ attempts[i].code = errorState.rawCode
          /\ attempts[i].repaired = Text(errorState.rawCode)

(***************************************************************************)
(* Claim C22: a new chart resets the render state                          *)
(***************************************************************************)
\* what an attempt for the text c may leave in errorState
RecordedFor(c) ==
    { NoError,
      [hasError |-> TRUE, message |-> errMsg("render", c),
       rawCode |-> c, repairedCode |-> Null],
      [hasError |-> TRUE, message |-> errMsg("parse", c),
       rawCode |-> c, repairedCode |-> Null],
      [hasError |-> TRUE, message |-> errMsg("parse", c),
       rawCode |-> c, repairedCode |-> Text(repairMermaidSyntax(c))],
      [hasError |-> FALSE, message |-> Str(""),
       rawCode |-> c, repairedCode |-> Text(repairMermaidSyntax(c))] }

\* C22 (as claimed). When the chart prop changes to a new text, activeChart
\* becomes that text and the render state is reset to {hasError: false,
\* message: '', rawCode: '', repairedCode: null}; and the state in which the
\* attempt for the new text ends holds nothing recorded for the text before
\* it: the error state is one an attempt for the new text writes, and the
\* active text is the new text.
C22_ResetOnNewText ==
    [][/\ chart' # chart =>
             /\ activeChart' = chart'
             /\ errorState' = NoError
       /\ \A i \in AttemptIds :
             (i = renderIdRef /\ attempts[i].code = chart /\ Ends(i)) =>
                 /\ activeChart' = chart
                 /\ errorState' \in RecordedFor(chart)]_vars

\* C22, the step of the change alone (lines 263-271)
C22_ResetStep ==
    [][chart' # chart =>
          /\ activeChart' = chart'
          /\ errorState' = NoError]_vars

(***************************************************************************)
(* Claim C23: Retry with fixes                                             *)
(***************************************************************************)
\* a validation starts that no change of the chart prop started
UserStartsValidation == renderIdRef' # renderIdRef /\ chart' = chart

\* attempt i is the one a Retry with fixes started: the newest, for an
\* active text that is not the chart prop
RetryAttempt(i) ==
    /\ i = renderIdRef
    /\ attempts[i].code = activeChart
    /\ activeChart # chart

\* C23 (as claimed). Retry with fixes acts only in the Failed state with a
\* stored candidate; it makes the candidate the active text and starts a
\* validation of it, and no other step that leaves the chart prop alone
\* starts a validation; and when the candidate parses and mermaid.render
\* resolves, the attempt ends with the candidate's drawing displayed and
\* hasError = false.
C23_ManualRetry ==
    [][/\ UserStartsValidation =>
             /\ errorState.hasError
             /\ errorState.repairedCode # Null
             /\ activeChart' = errorState.repairedCode.text
             /\ attempts'[renderIdRef'] =
                    [pc |-> "parse", code |-> errorState.repairedCode.text,
                     repaired |-> Null]
       /\ activeChart' # activeChart => (chart' # chart \/ UserStartsValidation)
       /\ \A i \in AttemptIds :
             ( /\ RetryAttempt(i) /\ Ends(i)
               /\ mermaid.verdict[attempts[i].code] = "ok" ) =>
                 /\ ~errorState'.hasError
                 /\ target' = Svg(i, attempts[i].code)]_vars

\* C23 without its last part: what Retry with fixes does in its own step
C23_RetryStep ==
    [][/\ UserStartsValidation =>
             /\ errorState.hasError
             /\ errorState.repairedCode # Null
             /\ activeChart' = errorState.repairedCode.text
             /\ attempts'[renderIdRef'] =
                    [pc |-> "parse", code |-> errorState.repairedCode.text,
                     repaired |-> Null]
       /\ activeChart' # activeChart => (chart' # chart \/ UserStartsValidation)]_vars

(***************************************************************************)
(* Claim C24: reset() and a newer submit() cancel the older stream         *)
(***************************************************************************)
\* stream s was started before the last reset(), or before a newer submit()
Stale(s) == ingest.abort \/ s < Cardinality(Used)

\* a callback of stream s runs in this step
IngestCallback(s) ==
    \/ \E ev \in IngestEvents : IngestOnEvent(s, ev)
    \/ IngestOnError(s)

\* C24 (as claimed). After reset() no event and no transport error of a
\* stream started before it changes result, error, loading or progress,
\* also once a new submit() has been started; and no event of an older
\* submit's stream is applied to the state of a newer submit.
C24_SoftCancel ==
    [][\A s \in StreamIds :
          (Stale(s) /\ IngestCallback(s)) => ingest' = ingest]_vars

\* C24 up to the next submit(): while the flag reset() raised is up, the
\* callbacks change nothing
C24_WhileAborted ==
    [][\A s \in StreamIds :
          (ingest.abort /\ IngestCallback(s)) => ingest' = ingest]_vars

(***************************************************************************)
(* Claim C25: event types outside a feature's vocabulary                   *)
(***************************************************************************)
IngestVocabulary == StageTypes \cup {"complete", "error"}
SummaryVocabulary == {"generating", "complete", "error"}
ChatVocabulary == {"thinking", "complete", "error"}

\* the events of a stream whose type the feature does not know
Unrecognized(events, vocabulary) == {ev \in events : ev.type \notin vocabulary}

\* C25. In each reachable state of a feature, its onEvent handler leaves the
\* state as it is for an event whose type is outside the feature's
\* vocabulary (ingest: result, error, loading, progress; summary: content,
\* error, loading, caption; chat: messages, error, busy and the stored
\* history) and the stream stays as it was, so that the events that follow
\* meet the state they would have met without it.
C25_UnrecognizedIgnored ==
    /\ feature = "ingest" =>
          \A u \in Unrecognized(IngestEvents, IngestVocabulary) :
             /\ ingestOnEvent(ingest, u) = ingest
             /\ \A s \in StreamIds : delivered(s, u) = streams
    /\ feature = "summary" =>
          \A u \in Unrecognized(SummaryEvents, SummaryVocabulary) :
             /\ summaryOnEvent(summary, u) = summary
             /\ \A s \in StreamIds : delivered(s, u) = streams
    /\ feature = "chat" =>
          \A u \in Unrecognized(ChatEvents, ChatVocabulary) :
             /\ chatOnEvent(chat, sessionStorage, u) = <<chat, sessionStorage>>
             /\ \A s \in StreamIds : delivered(s, u) = streams

\* An ingest stream is open and has delivered a stage event: the state an
\* event of another type meets holds progress and the loading flag.
C25_Witness ==
    /\ feature = "ingest"
    /\ \E s \in StreamIds : Calling(s)
    /\ ingest.loading /\ ~ingest.abort
    /\ ingest.progress.stage = "analyzing"
    /\ Unrecognized(IngestEvents, IngestVocabulary) # {}

(***************************************************************************)
(* Claim C26: the busy flags once the stream has resolved                  *)
(***************************************************************************)
\* the readSSEStream call of the latest request has resolved
LatestResolved ==
    /\ Used # {}
    /\ streams[Cardinality(Used)].st = "closed"

\* C26 (as claimed). Once the readSSEStream call of the latest submit() has
\* resolved (the stream ended, failed, or answered with a non-2xx status),
\* loading is false, also when the stream delivered neither complete nor
\* error; the same for summaryLoading and the chat's busy.
C26_LoadingEnds ==
    LatestResolved =>
        /\ feature = "ingest" => ~ingest.loading
        /\ feature = "summary" => ~summary.summaryLoading
        /\ feature = "chat" => ~chat.busy

\* C26 for a latest call that delivered complete before it resolved, no
\* older call being open: there the flags are down
C26_LoadingEndsAfterOutcome ==
    ( /\ LatestResolved
      /\ \A s \in Used : streams[s].st = "closed"
      /\ streams[Cardinality(Used)].done ) =>
        /\ feature = "ingest" => ~ingest.loading
        /\ feature = "summary" => ~summary.summaryLoading
        /\ feature = "chat" => ~chat.busy

(***************************************************************************)
(* Claim C27: one chat request at a time                                   *)
(***************************************************************************)
\* sendMessage accepts a message in this step: a user message is appended
\* or a request is issued
SendAccepted ==
    /\ feature = "chat"
    /\ \/ RequestStarts
       \/ /\ Len(chat'.messages) = Len(chat.messages) + 1
          /\ chat'.messages[Len(chat'.messages)].role = "user"

\* the request of stream s has delivered neither complete nor an error that
\* is still shown, and its call has not resolved
Awaited(s) == Calling(s) /\ ~streams[s].done /\ chat.error = Null

\* C27 (as claimed). sendMessage accepts a message only when no earlier
\* request is still awaited, and otherwise changes neither the messages nor
\* the stored history; every accepted user message stays in the list (until
\* the chat is cleared), and no user message gets a second assistant reply:
\* two assistant messages never follow each other.
C27_OneRequestInFlight ==
    [][feature = "chat" =>
          /\ SendAccepted => (~chat.busy /\ \A s \in StreamIds : ~Awaited(s))
          /\ chat'.messages # << >> =>
                /\ Len(chat'.messages) >= Len(chat.messages)
                /\ SubSeq(chat'.messages, 1, Len(chat.messages)) = chat.messages
          /\ \A k \in 2..Len(chat'.messages) :
                ~ /\ chat'.messages[k - 1].role = "assistant"
                  /\ chat'.messages[k].role = "assistant"]_vars

\* C27 without the count of replies: messages are accepted one request at a
\* time and stay in the list
C27_SendsOneAtATime ==
    [][feature = "chat" =>
          /\ SendAccepted => (~chat.busy /\ \A s \in StreamIds : ~Awaited(s))
          /\ chat'.messages # << >> =>
                /\ Len(chat'.messages) >= Len(chat.messages)
                /\ SubSeq(chat'.messages, 1, Len(chat.messages)) = chat.messages]_vars

(***************************************************************************)
(* Claim C28: the text after the last delimiter                            *)
(***************************************************************************)
\* the text received so far
ReceivedText == decode(FALSE, Received).text

\* the number of segments of the text that a "\n\n" terminates
Terminated(text) == Len(splitNN(text)) - 1

\* the number of 'data: ' lines in the terminated segments of the text: the
\* lines that start before its last segment does
TerminatedDataLines(text) ==
    LET segs == splitNN(text)
        upto == Len(text) - Len(segs[Len(segs)])
    IN  Cardinality({i \in 1..upto :
                        /\ i = 1 \/ text[i - 1] = NL
                        /\ i < Len(text) /\ text[i] = "d" /\ text[i + 1] = SP})

\* the call reads, or has read, the body of a 2xx response
ReadsBody == response.ok /\ response.hasBody /\ pc \in {"read", "resolved", "rejected"}

\* C28 (as claimed). readSSEStream dispatches a 'data: ' line only after the
\* "\n\n" that ends its segment was received, and what is left in the buffer
\* when the stream ends is dropped without a callback: the events dispatched
\* are never more than the terminated segments received.
C28_UnterminatedTail ==
    ReadsBody =>
        /\ Len(OnEvents(calls)) <= TerminatedDataLines(ReceivedText)
        /\ Len(OnEvents(calls)) <= Terminated(ReceivedText)

\* C28 (amended). The events dispatched are never more than the 'data: '
\* lines of the terminated segments received, while reading and after the
\* stream has ended with text left in the buffer.
C28_TailNotDispatched ==
    ReadsBody => Len(OnEvents(calls)) <= TerminatedDataLines(ReceivedText)

\* The stream has ended after an event was dispatched, and the buffer holds
\* a 'data: ' line that no delimiter followed.
C28_Witness ==
    /\ ReadsBody
    /\ pc = "resolved" /\ OnErrors(calls) = <<>>
    /\ pos = Len(Body(response))
    /\ startsWithData(buffer)
    /\ Len(OnEvents(calls)) = 1


(***************************************************************************)
(* The preset buttons of the ingest form (main.js).  A click calls         *)
(* applyPreset with the button's name; applyPreset is also a property of   *)
(* window, so a name that is no key of PRESETS can be passed.  One action  *)
(* runs one call frame up to its next call or return.  The engine's stack  *)
(* holds MaxDepth frames; a call beyond it throws a RangeError, which no   *)
(* frame catches, so it ends the click handler.                            *)
(***************************************************************************)
\* frames the call stack holds
MaxDepth == 4

PRESETS ==
    [x \in {"code-review", "documentation", "architecture", "full-digest"} |->
        CASE x = "code-review" ->
                [pattern_type |-> "include",
                 pattern |-> "*.py, *.js, *.ts, *.tsx, *.jsx, *.go, *.rs, *.java, *.cpp, *.c, *.h, *.cs, *.swift, *.kt, *.rb, *.php",
                 output_format |-> Null]
          [] x = "documentation" ->
                [pattern_type |-> "include",
                 pattern |-> "*.md, *.rst, *.txt, *.doc, README*",
                 output_format |-> Str("markdown")]
          [] x = "architecture" ->
                [pattern_type |-> "exclude",
                 pattern |-> "*test*, *spec*, *__pycache__*, *.png, *.jpg, *.svg, *.gif, *.ico, node_modules/, dist/, build/",
                 output_format |-> Null]
          [] x = "full-digest" ->
                [pattern_type |-> "exclude",
                 pattern |-> "",
                 output_format |-> Str("text")]]

\* The names applyPreset is called with: the four buttons and a name that is
\* no preset
PresetNames == DOMAIN PRESETS \cup {"no-such-preset"}

\* What the user types into #pattern and picks in the two selects
TypedPatterns == {"", "*.md", PRESETS["documentation"].pattern}
PatternTypes == {"include", "exclude"}
OutputFormats == {"text", "markdown"}

\* The innermost applyPreset call
Frame == frames[Len(frames)]

\* The stack without its innermost call
Caller == SubSeq(frames, 1, Len(frames) - 1)

\* A click on a preset button, or a call of window.applyPreset
ApplyPresetCalled(presetName) ==
    /\ feature = "presets"
    /\ frames = << >>
    /\ frames' = <<[presetName |-> presetName, at |-> "entry"]>>
    /\ uncaught' = Null
    /\ UNCHANGED <<activePreset, form>>
    /\ UNCHANGED nonPreset

\* if (!preset) { return; }
ApplyPresetUnknown ==
    /\ feature = "presets"
    /\ frames # << >>
    /\ Frame.at = "entry"
    /\ Frame.presetName \notin DOMAIN PRESETS
    /\ frames' = Caller
    /\ UNCHANGED <<activePreset, form, uncaught>>
    /\ UNCHANGED nonPreset

\* if (_activePreset === presetName) { applyPreset('full-digest'); ...
ApplyPresetToggles ==
    /\ feature = "presets"
    /\ frames # << >>
    /\ Frame.at = "entry"
    /\ Frame.presetName \in DOMAIN PRESETS
    /\ activePreset = Str(Frame.presetName)
    /\ IF Len(frames) < MaxDepth
       THEN /\ frames' = Append([frames EXCEPT ![Len(frames)].at = "called"],
                                [presetName |-> "full-digest", at |-> "entry"])
            /\ UNCHANGED uncaught
       ELSE /\ frames' = << >>
            /\ uncaught' = Str("RangeError")
    /\ UNCHANGED <<activePreset, form>>
    /\ UNCHANGED nonPreset

\* ... return; }
ApplyPresetToggled ==
    /\ feature = "presets"
    /\ frames # << >>
    /\ Frame.at = "called"
    /\ frames' = Caller
    /\ UNCHANGED <<activePreset, form, uncaught>>
    /\ UNCHANGED nonPreset

\* The rest of applyPreset: the fields take the preset's values, the output
\* format only when the preset has one, and the preset becomes the active one
ApplyPresetSets ==
    /\ feature = "presets"
    /\ frames # << >>
    /\ Frame.at = "entry"
    /\ Frame.presetName \in DOMAIN PRESETS
    /\ activePreset # Str(Frame.presetName)
    /\ LET preset == PRESETS[Frame.presetName]
       IN  form' = [pattern_type |-> preset.pattern_type,
                    pattern |-> preset.pattern,
                    output_format |-> IF preset.output_format # Null
                                      THEN preset.output_format.str
                                      ELSE form.output_format]
    /\ activePreset' = Str(Frame.presetName)
    /\ frames' = Caller
    /\ UNCHANGED uncaught
    /\ UNCHANGED nonPreset

\* _detectManualEdit, with the fields as the edit left them
detectManualEdit(edited) ==
    IF /\ activePreset # Null
       /\ \/ edited.pattern # PRESETS[activePreset.str].pattern
          \/ edited.pattern_type # PRESETS[activePreset.str].pattern_type
    THEN Null
    ELSE activePreset

\* The user edits #pattern or picks a #pattern_type: the listeners registered
\* on DOMContentLoaded run _detectManualEdit
ManualEdit(pattern_type, pattern) ==
    /\ feature = "presets"
    /\ frames = << >>
    /\ form' = [form EXCEPT !.pattern_type = pattern_type, !.pattern = pattern]
    /\ form' # form
    /\ activePreset' = detectManualEdit(form')
    /\ UNCHANGED <<frames, uncaught>>
    /\ UNCHANGED nonPreset

\* The user picks an output format: no listener of the presets runs
OutputFormatPicked(output_format) ==
    /\ feature = "presets"
    /\ frames = << >>
    /\ form.output_format # output_format
    /\ form' = [form EXCEPT !.output_format = output_format]
    /\ UNCHANGED <<activePreset, frames, uncaught>>
    /\ UNCHANGED nonPreset

PresetInit ==
    /\ ReaderIdle /\ PresetsIdle /\ FeaturesIdle /\ RenderIdle /\ NoCall
    /\ feature = "presets"

PresetNext ==
    \/ \E presetName \in PresetNames : ApplyPresetCalled(presetName)
    \/ ApplyPresetUnknown
    \/ ApplyPresetToggles
    \/ ApplyPresetToggled
    \/ ApplyPresetSets
    \/ \E pattern_type \in PatternTypes, pattern \in TypedPatterns :
          ManualEdit(pattern_type, pattern)
    \/ \E output_format \in OutputFormats : OutputFormatPicked(output_format)

SpecPreset == PresetInit /\ [][PresetNext]_vars

(***************************************************************************)
(* Claim C29: applyPreset terminates.  Whatever the name and the active    *)
(* preset, the call returns: the stack empties and no exception leaves the *)
(* click handler.  A call with the name of the active preset, the name     *)
(* 'full-digest' included, leaves the three fields at the values of the    *)
(* full-digest preset; a call with a name that is no preset changes        *)
(* neither the fields nor the active preset.                               *)
(***************************************************************************)
\* The outermost call ends in this step
ApplyPresetEnds == frames # << >> /\ frames' = << >>

\* The outermost call was made with the name of the preset active at that time
OfActivePreset ==
    \/ frames[1].at = "called"
    \/ /\ frames[1].presetName \in DOMAIN PRESETS
       /\ Str(frames[1].presetName) = activePreset

FullDigestFields ==
    [pattern_type |-> PRESETS["full-digest"].pattern_type,
     pattern |-> PRESETS["full-digest"].pattern,
     output_format |-> PRESETS["full-digest"].output_format.str]

C29_ApplyPresetTerminates ==
    [][ApplyPresetEnds =>
          /\ uncaught' = Null
          /\ OfActivePreset => form' = FullDigestFields
          /\ frames[1].presetName \notin DOMAIN PRESETS =>
                form' = form /\ activePreset' = activePreset]_vars

\* The same for the calls made while 'full-digest' is not the active preset:
\* these return, and a call with the active name resets the fields
C29_TerminatesUnlessFullDigestActive ==
    [][(ApplyPresetEnds /\ activePreset # Str("full-digest")) =>
          /\ uncaught' = Null
          /\ frames[1].at = "called" => form' = FullDigestFields
          /\ frames[1].presetName \notin DOMAIN PRESETS =>
                form' = form /\ activePreset' = activePreset]_vars


(***************************************************************************)
(* Claim C30: bounded availability polling.  One mount of AIAnalysis       *)
(* requests /api/summary/available at most 4 times, the first check and at *)
(* most 3 retries.  A retry is scheduled only by a check that was answered *)
(* with available = false or that failed, never by one answered with       *)
(* available = true.  Once the effect has been cleaned up, the checks of   *)
(* that mount update no state and schedule no retry.                       *)
(***************************************************************************)
\* A step of the availability effect: check() starts, or its request settles
AvailabilityStep == summary'.check # summary.check

\* This step schedules a retry
SchedulesRetry == summary.check = "fetching" /\ summary'.check = "waiting"

\* Nothing the component shows or the effect counts changes in this step
NoStateUpdate ==
    summary' = [summary EXCEPT !.check = summary'.check,
                               !.fetches = summary'.fetches]

C30_BoundedPolling ==
    [][/\ summary'.fetches <= maxAttempts + 1
       /\ SchedulesRetry =>
             /\ ~summary'.available
             /\ summary'.attempt = summary.attempt + 1
             /\ summary'.attempt <= maxAttempts
       /\ (summary.cancelled /\ AvailabilityStep) =>
             /\ NoStateUpdate
             /\ ~SchedulesRetry]_vars

\* The fourth request was made, after the cleanup, and its answer was dropped
C30_Witness ==
    /\ summary.cancelled
    /\ summary.fetches = maxAttempts + 1
    /\ summary.check = "stopped"
    /\ summary.attempt = maxAttempts

================================================================
